---- MODULE Spec2Model ----
(***************************************************************************)
(* A model of the concurrency core of olliecheng/consensus:                *)
(*   - OrderedMapCollect::par_map_and_emit and recover_order               *)
(*     (src/src/ordered_rayon.rs), specification Spec / FairSpec;          *)
(*   - consensus, custom_command (src/src/call.rs) and group               *)
(*     (src/src/group.rs), specification CallSpec;                         *)
(*   - DuplicateMap::insert and IndexReader::get_duplicates                *)
(*     (src/src/duplicates.rs), specification DupSpec;                     *)
(*   - UMIGroupCollectionIter::next (src/src/io.rs), specification         *)
(*     IterSpec;                                                           *)
(*   - RecordIdentifier::from_string and its Display                       *)
(*     (src/src/duplicates.rs), specification IdSpec;                      *)
(*   - Record::add_metadata (src/src/io.rs), specification MetaSpec;       *)
(*   - Record::phred_quality_avg and the avg_qual of a group               *)
(*     (src/src/io.rs), specification QualSpec;                            *)
(*   - iter_lines_with_regex, iter_lines_with_cluster_file                 *)
(*     (src/src/index.rs) and filter (src/src/filter.rs), specification    *)
(*     GenSpec;                                                            *)
(*   - the mutex-based consensus of the consensus crate                    *)
(*     (src/consensus/src/call.rs), specification MxSpec;                  *)
(*   - FastQReadIterator::next (src/src/reader/fastq.rs) over ByteReader   *)
(*     (src/src/reader/bytes.rs), specification FqSpec.                    *)
(***************************************************************************)
EXTENDS Integers, Sequences, FiniteSets, TLC

\* ------------------------------------------------------------------ bounds
MaxThreads == 3
MaxCache == 3
MaxItems == 4
MaxCallThreads == 2
MaxGroups == 5
MaxRows == 3
MaxIterRows == 5
MaxIdLen == 3
MaxOrdinal == 2
MaxMembers == 3
MaxQualMembers == 2
MaxBases == 3
MaxReads == 3
MaxMxThreads == 2
MaxMxGroups == 2
MaxFqRecords == 2
MaxFqCalls == 4

\* usize::MAX, the value `cache_size - 1` wraps to in a release build when
\* cache_size = 0 (stands for 2^64 - 1: larger than every index of the model).
UsizeMax == 2147483647

VARIABLES
    \* ---- par_map_and_emit (ordered_rayon.rs)
    threads,      \* argument `threads`
    cache_size,   \* argument `cache_size`
    input,        \* the items the iterator `self` will yield
    pool,         \* number of threads of the rayon pool that was built
    pm_pc,        \* "call" | "seq" | "par" | "returned" | "panicked"
    result,       \* "none" | "Ok" | "CacheTooSmallError" | a panic message
    pulled,       \* how many items were taken from the iterator
    wpc,          \* per worker: "idle" | "spin" | "send" | "exit"
    witem,        \* per worker: the (i, value) pair it holds
    approved,     \* the AtomicUsize approved_to_emit
    chan,         \* the sync_channel's queue of (i, value)
    cpc,          \* recover_order: "recv" | "drain" | "closed"
    buffer,       \* recover_order's boxed slice of Option<T>
    min_idx,      \* recover_order's min_idx
    loop_v,       \* the variable v of the drain loop
    loop_end,     \* the end of the drain loop's range
    out           \* the values emit was called with, in call order

parVars == <<threads, cache_size, input, pool, pm_pc, result, pulled, wpc, witem,
             approved, chan, cpc, buffer, min_idx, loop_v, loop_end, out>>

VARIABLES
    \* ---- consensus, custom_command (call.rs) and group (group.rs)
    c_fn,         \* which function runs: "consensus" | "custom_command" | "group"
    c_threads,    \* argument `threads`
    c_n,          \* number of groups iter_duplicates will visit
    c_pc,         \* the calling thread: "start" | "pump" | "wait" | "gloop" |
                  \*   "returned" | "panicked"
    c_err,        \* the local `err`, written by until_err
    c_result,     \* the value returned (or the panic raised)
    c_src,        \* groups taken from iter_duplicates so far
    c_next_tx,    \* items the parallel map has dispatched to its workers so far
    c_next_rx,    \* results handed downstream so far
    c_iter_done,  \* the parallel map saw its input iterator return None
    c_queue,      \* dispatched groups no worker has taken yet
    c_busy,       \* per worker: the group it is computing, or -1
    c_read,       \* per group: "none" | "ok" | "err", how reading it went
    c_results,    \* per group: "none" | "ok" | "read_err" | "cmd_err", what the
                  \*   worker closure returned
    c_written,    \* the groups whose output was written to the sink, in order
    c_wfail,      \* the group whose write the sink failed, or -1
    c_orig,       \* consensus: argument `output_originals`
    c_size,       \* consensus, per group: rec.records.len(), 0 before it is read
    c_aligned,    \* consensus: the groups the alignment engine was invoked for
    c_output,     \* consensus, per group: the String its closure returned, as
                  \*   the sequence of the FASTA records in it
    c_out,        \* the FASTA records the sink holds, in order
    c_stdin       \* custom_command, per group: what run_command was given as
                  \*   its `stdin` argument

callVars == <<c_fn, c_threads, c_n, c_pc, c_err, c_result, c_src, c_next_tx, c_next_rx,
              c_iter_done, c_queue, c_busy, c_read, c_results, c_written, c_wfail,
              c_orig, c_size, c_aligned, c_output, c_out, c_stdin>>

VARIABLES
    \* ---- IndexReader::get_duplicates (duplicates.rs)
    d_pc,          \* "open" | "read" | "done" | "error" | "panicked"
    d_rows,        \* the rows of the index file read so far
    d_filepos,     \* the byte offset of the next record of the source file
    d_by_id,       \* map.by_id, in insertion order
    d_pos_to_id,   \* map.pos_to_id, in insertion order
    d_total_reads, \* stats.total_reads
    d_stats,       \* the statistics returned
    d_header,      \* the first line of the index file: "unread" | "ok" |
                   \*   "unreadable" | "no_hash" | "bad_json"
    d_bad_row      \* a row that does not deserialize was met

dupVars == <<d_pc, d_rows, d_filepos, d_by_id, d_pos_to_id, d_total_reads, d_stats,
             d_header, d_bad_row>>

VARIABLES
    \* ---- UMIGroupCollection and UMIGroupCollectionIter (io.rs)
    i_pc,           \* "idle" | "iter": stream_iter has handed out the iterator
    i_rows,         \* the rows of the index, one per record of the input file
    i_duplicates,   \* collection.duplicates: [by_id, pos_to_id]
    i_dup_only,     \* self.duplicates_only
    i_cursor,       \* records taken from seq_parser (and rows from `records`)
    i_visited,      \* self.visited_reads
    i_current_idx,  \* self.current_idx
    i_yielded,      \* the groups the calls of next returned, in order
    i_last,         \* what the last call of next returned:
                    \*   "none" | "group" | "end" | "err"
    i_failed,       \* some call of next returned the error of a member fetch
    i_seq_off,      \* the offset in the file of the next record seq_parser returns
    i_rnd_off       \* the file offset of the handle rnd_reader

iterVars == <<i_pc, i_rows, i_duplicates, i_dup_only, i_cursor, i_visited,
              i_current_idx, i_yielded, i_last, i_failed, i_seq_off, i_rnd_off>>

VARIABLES
    \* ---- RecordIdentifier::from_string and to_string (duplicates.rs)
    f_pc,     \* "idle" | "start" | "parsed" | "printed" | "panicked"
    f_s,      \* the id string, a sequence of characters
    f_ident,  \* the RecordIdentifier from_string returned
    f_str     \* the string to_string returned for it

idVars == <<f_pc, f_s, f_ident, f_str>>

VARIABLES
    \* ---- Record::add_metadata (io.rs)
    m_pc,    \* "idle" | "start" | "done"
    m_args,  \* the arguments umi_group, read_type, group_idx, group_size, avg_qual
    m_id     \* self.id, a sequence of tokens

metaVars == <<m_pc, m_args, m_id>>

VARIABLES
    \* ---- the avg_qual of a UMIGroup (io.rs)
    q_pc,        \* "idle" | "start" | "done"
    q_records,   \* the qual strings of the group's records, as sequences of bytes
    q_avg_qual   \* avg_qual: the operands <<numerator, denominator>> of the
                 \* division, the numerator in hundredths

qualVars == <<q_pc, q_records, q_avg_qual>>

VARIABLES
    \* ---- iter_lines_with_regex / iter_lines_with_cluster_file (index.rs)
    g_pc,        \* "idle" | "loop" | "done" | "error" | "panicked", after
                 \* finish_write "written" | "finish_err", and for the
                 \* iteration over the finished index "iter_end" | "iter_err"
    g_mode,      \* "regex" | "cluster": which of the two functions runs
    g_skip,      \* skip_invalid_ids
    g_opts,      \* filter_opts: [len, quality], each an ArgInterval [min, max]
    g_reads,     \* the records fastq_reader has returned so far
    g_rows,      \* the rows write_record has written
    g_meta,      \* wtr.metadata: read_count, matched_read_count,
                 \* unmatched_read_count, filtered_reads, avg_qual, avg_len
    g_expected,  \* expected_len: 0 for None
    g_totals,    \* <<total_quality, total_len>>
    g_paired,    \* the (index row, record) pairs next_record has returned for the
                 \* finished index and the file it was made from
    g_out        \* the file at out_file: [state, meta, rows], state "absent",
                 \* "old" (a file that was there before the run, untouched)
                 \* or "created" (File::create has made or truncated it)

genVars == <<g_pc, g_mode, g_skip, g_opts, g_reads, g_rows, g_meta, g_expected,
             g_totals, g_paired, g_out>>

VARIABLES
    \* ---- consensus of the consensus crate (consensus/src/call.rs)
    mx_threads,     \* argument `threads`; 0 while the function is not called
    mx_duplicates,  \* `duplicates`: per group the number of its positions
    mx_pending,     \* the groups par_iter has not handed to a worker yet
    mx_worker,      \* per pool thread: [pc, group, idx, got]
                    \*   pc: "idle" | "lock" | "seek" | "read" | "drop" | "consensus" |
                    \*       "wlock" | "head" | "seq" | "panicked"
                    \*   idx: the position of the group the loop is at
                    \*   got: the file offsets of the records it has read
    mx_file,        \* the Mutex<File>: [owner, poisoned, pos], owner 0 when free,
                    \*   pos the cursor of the file
    mx_writer       \* the Mutex<R>: [owner, sink], sink the pieces written

mxVars == <<mx_threads, mx_duplicates, mx_pending, mx_worker, mx_file, mx_writer>>

VARIABLES
    \* ---- FastQReadIterator and ByteReader (reader/fastq.rs, reader/bytes.rs)
    fq_input,   \* the bytes of the input, ending with its last quality line
    fq_cap,     \* the capacity of the BufReader handed to ByteReader::new
    fq_it,      \* two iterators, "plain" over fq_input and "nl" over fq_input
                \* followed by a newline, each [r, eof, calls, panicked]:
                \*   r: the BufReader, [pos, filled]: pos bytes were consumed
                \*      and filled bytes were fetched from the source
                \*   calls: what each call of next returned, in order
    fq_apply    \* a call of apply_on_slice_until_byte(b'\n', f) on a new
                \* ByteReader over fq_input: [done, slices, ret, r], slices the
                \* <<offset, length>> of each slice f was given, ret the value
                \* returned, -1 for None

fqVars == <<fq_input, fq_cap, fq_it, fq_apply>>

nonParVars == <<callVars, dupVars, iterVars, idVars, metaVars, qualVars, genVars, mxVars, fqVars>>
nonCallVars == <<parVars, dupVars, iterVars, idVars, metaVars, qualVars, genVars, mxVars, fqVars>>
nonDupVars == <<parVars, callVars, iterVars, idVars, metaVars, qualVars, genVars, mxVars, fqVars>>
nonIterVars == <<parVars, callVars, dupVars, idVars, metaVars, qualVars, genVars, mxVars, fqVars>>
nonIdVars == <<parVars, callVars, dupVars, iterVars, metaVars, qualVars, genVars, mxVars, fqVars>>
nonMetaVars == <<parVars, callVars, dupVars, iterVars, idVars, qualVars, genVars, mxVars, fqVars>>
nonQualVars == <<parVars, callVars, dupVars, iterVars, idVars, metaVars, genVars, mxVars, fqVars>>
nonGenVars == <<parVars, callVars, dupVars, iterVars, idVars, metaVars, qualVars, mxVars, fqVars>>
nonMxVars == <<parVars, callVars, dupVars, iterVars, idVars, metaVars, qualVars, genVars,
              fqVars>>
nonFqVars == <<parVars, callVars, dupVars, iterVars, idVars, metaVars, qualVars, genVars,
              mxVars>>

vars == <<parVars, callVars, dupVars, iterVars, idVars, metaVars, qualVars, genVars,
          mxVars, fqVars>>

None == <<>>

\* ------------------------------------------------- par_map_and_emit helpers

\* The closure `map` of tests::test_range: |x| format!("Output {x}")
MapFn(x) == <<"Output", x>>

\* The iterator of tests::test_range, (1..n+1): n distinct items.
RangeInput(n) == [k \in 1..n |-> k]

\* self.map(map): what the sequential path hands to emit, in order.
MapAll(s) == [k \in 1..Len(s) |-> MapFn(s[k])]

\* The configuration check left out.
CacheTooSmallNever(t, c) == FALSE

\* if cache_size < threads { return CacheTooSmallError }
CacheTooSmall(t, c) == c < t

\* One index too many approved at the start.
ApprovedInitOffByOne(c) == c

\* AtomicUsize::new(cache_size - 1)
ApprovedInit(c) == IF c = 0 THEN UsizeMax ELSE c - 1

\* The spin condition written with <= instead of <.
IsApprovedStrict(a, i) == ~(a <= i)

\* approved_to_emit.load(Acquire) < i is the spin condition; this is its exit.
IsApproved(a, i) == ~(a < i)

\* Every index mapped to the first slot.
SlotFirst(i, c) == 0

\* buffer[i % cache_size]
Slot(i, c) == i % c

\* The pool's threads that can run the par_bridge job: the thread that runs the
\* scope body is blocked in recover_order.
Workers == 1..(MaxThreads - 1)
ActiveWorkers == {w \in Workers : w <= pool - 1}

\* A sync_channel(cache_size) accepts a send without blocking while it holds
\* fewer than cache_size messages; with capacity 0 it is a rendezvous with a
\* receiver that is waiting.
ChanHasRoom(q, c) == IF c = 0 THEN q = <<>> /\ cpc = "recv" ELSE Len(q) < c

\* The receive loop ending as soon as the queue is empty.
ChanClosedWhenEmpty == chan = <<>>

\* `for (i, value) in rx` ends when the queue is empty and every Sender is dropped.
ChanClosed == chan = <<>> /\ \A w \in ActiveWorkers : wpc[w] = "exit"

ParInit ==
    /\ threads \in 0..MaxThreads
    /\ cache_size \in 0..MaxCache
    /\ \E n \in 0..MaxItems : input = RangeInput(n)
    \* num_threads(0) lets rayon choose the pool size (the number of CPUs)
    /\ pool \in IF threads = 0 THEN 1..MaxThreads ELSE {threads}
    /\ pm_pc = "call"
    /\ result = "none"
    /\ pulled = 0
    /\ wpc = [w \in Workers |-> "idle"]
    /\ witem = [w \in Workers |-> None]
    /\ approved = 0
    /\ chan = <<>>
    /\ cpc = "recv"
    /\ buffer = <<>>
    /\ min_idx = 0
    /\ loop_v = 0
    /\ loop_end = 0
    /\ out = <<>>

\* par_map_and_emit, lines 42-62: the configuration check, the choice of path
\* and the set-up of the parallel path.
ParCall ==
    /\ pm_pc = "call"
    /\ IF CacheTooSmall(threads, cache_size)
         THEN /\ pm_pc' = "returned"
              /\ result' = "CacheTooSmallError"
              /\ UNCHANGED <<approved, buffer>>
         ELSE IF threads = 1
         THEN /\ pm_pc' = "seq"
              /\ UNCHANGED <<result, approved, buffer>>
         ELSE \/ /\ pm_pc' = "par"
                 /\ approved' = ApprovedInit(cache_size)
                 /\ buffer' = [k \in 1..cache_size |-> None]
                 /\ UNCHANGED result
              \* a build with overflow checks panics on 0 - 1
              \/ /\ cache_size = 0
                 /\ pm_pc' = "panicked"
                 /\ result' = "attempt to subtract with overflow"
                 /\ UNCHANGED <<approved, buffer>>
    /\ UNCHANGED <<nonParVars, threads, cache_size, input, pool, pulled, wpc, witem, chan, cpc,
                   min_idx, loop_v, loop_end, out>>

\* threads == 1: self.map(map).for_each(emit), one item per step.
SeqStep ==
    /\ pm_pc = "seq"
    /\ pulled < Len(input)
    /\ pulled' = pulled + 1
    /\ out' = Append(out, MapFn(input[pulled + 1]))
    /\ UNCHANGED <<nonParVars, threads, cache_size, input, pool, pm_pc, result, wpc, witem,
                   approved, chan, cpc, buffer, min_idx, loop_v, loop_end>>

SeqDone ==
    /\ pm_pc = "seq"
    /\ pulled = Len(input)
    /\ pm_pc' = "returned"
    /\ result' = "Ok"
    /\ UNCHANGED <<nonParVars, threads, cache_size, input, pool, pulled, wpc, witem,
                   approved, chan, cpc, buffer, min_idx, loop_v, loop_end, out>>

\* A worker takes the next (i, value) from self.enumerate().par_bridge() and
\* maps it: .map(|(i, value)| (i, map(value))).
WorkerPull(w) ==
    /\ pm_pc = "par"
    /\ w \in ActiveWorkers
    /\ wpc[w] = "idle"
    /\ pulled < Len(input)
    /\ pulled' = pulled + 1
    /\ witem' = [witem EXCEPT ![w] = <<pulled, MapFn(input[pulled + 1])>>]
    /\ wpc' = [wpc EXCEPT ![w] = "spin"]
    /\ UNCHANGED <<nonParVars, threads, cache_size, input, pool, pm_pc, result, approved, chan,
                   cpc, buffer, min_idx, loop_v, loop_end, out>>

\* The iterator is exhausted: the worker leaves for_each_with and drops its Sender.
WorkerExit(w) ==
    /\ pm_pc = "par"
    /\ w \in ActiveWorkers
    /\ wpc[w] = "idle"
    /\ pulled = Len(input)
    /\ wpc' = [wpc EXCEPT ![w] = "exit"]
    /\ UNCHANGED <<nonParVars, threads, cache_size, input, pool, pm_pc, result, pulled, witem,
                   approved, chan, cpc, buffer, min_idx, loop_v, loop_end, out>>

\* The spin loop ends: a load of approved_to_emit was not below i.
WorkerApproved(w) ==
    /\ pm_pc = "par"
    /\ wpc[w] = "spin"
    /\ IsApproved(approved, witem[w][1])
    /\ wpc' = [wpc EXCEPT ![w] = "send"]
    /\ UNCHANGED <<nonParVars, threads, cache_size, input, pool, pm_pc, result, pulled, witem,
                   approved, chan, cpc, buffer, min_idx, loop_v, loop_end, out>>

\* A worker that calls emit itself instead of sending its result.
WorkerSendEmits(w) ==
    /\ pm_pc = "par"
    /\ wpc[w] = "send"
    /\ out' = Append(out, witem[w][2])
    /\ witem' = [witem EXCEPT ![w] = None]
    /\ wpc' = [wpc EXCEPT ![w] = "idle"]
    /\ UNCHANGED <<nonParVars, threads, cache_size, input, pool, pm_pc, result, pulled,
                   approved, chan, cpc, buffer, min_idx, loop_v, loop_end>>

\* tx.send((i, value)), which blocks while the channel is full.
WorkerSend(w) ==
    /\ pm_pc = "par"
    /\ wpc[w] = "send"
    /\ ChanHasRoom(chan, cache_size)
    /\ chan' = Append(chan, witem[w])
    /\ witem' = [witem EXCEPT ![w] = None]
    /\ wpc' = [wpc EXCEPT ![w] = "idle"]
    /\ UNCHANGED <<nonParVars, threads, cache_size, input, pool, pm_pc, result, pulled,
                   approved, cpc, buffer, min_idx, loop_v, loop_end, out>>

\* recover_order, lines 109-116: receive (i, value), assert the slot is empty,
\* store the value and enter the drain loop.
ConsumerRecv ==
    /\ pm_pc = "par"
    /\ cpc = "recv"
    /\ chan # <<>>
    /\ chan' = Tail(chan)
    /\ LET i == Head(chan)[1]
           value == Head(chan)[2]
       IN IF cache_size = 0
            THEN /\ pm_pc' = "panicked"
                 /\ result' = "remainder with a divisor of zero"
                 /\ UNCHANGED <<cpc, buffer, loop_v, loop_end>>
            ELSE IF buffer[Slot(i, cache_size) + 1] # None
            THEN /\ pm_pc' = "panicked"
                 /\ result' = "assertion failed: buffer[i % cache_size].is_none()"
                 /\ UNCHANGED <<cpc, buffer, loop_v, loop_end>>
            ELSE /\ buffer' = [buffer EXCEPT ![Slot(i, cache_size) + 1] = <<i, value>>]
                 /\ cpc' = "drain"
                 /\ loop_v' = min_idx
                 /\ loop_end' = min_idx + cache_size
                 /\ UNCHANGED <<pm_pc, result>>
    /\ UNCHANGED <<nonParVars, threads, cache_size, input, pool, pulled, wpc, witem, approved,
                   min_idx, out>>

\* One iteration of the drain loop that does not break: lines 122-125.
ConsumerEmit ==
    /\ pm_pc = "par"
    /\ cpc = "drain"
    /\ loop_v < loop_end
    /\ buffer[Slot(loop_v, cache_size) + 1] # None
    /\ out' = Append(out, buffer[Slot(loop_v, cache_size) + 1][2])
    /\ buffer' = [buffer EXCEPT ![Slot(loop_v, cache_size) + 1] = None]
    /\ min_idx' = min_idx + 1
    /\ loop_v' = loop_v + 1
    /\ UNCHANGED <<nonParVars, threads, cache_size, input, pool, pm_pc, result, pulled, wpc,
                   witem, approved, chan, cpc, loop_end>>

\* The drain loop ends (break on None, or range exhausted) and line 128 stores
\* min_idx into the approval counter.
ConsumerPublish ==
    /\ pm_pc = "par"
    /\ cpc = "drain"
    /\ \/ loop_v = loop_end
       \/ loop_v < loop_end /\ buffer[Slot(loop_v, cache_size) + 1] = None
    /\ approved' = min_idx
    /\ cpc' = "recv"
    /\ UNCHANGED <<nonParVars, threads, cache_size, input, pool, pm_pc, result, pulled, wpc,
                   witem, chan, buffer, min_idx, loop_v, loop_end, out>>

\* The channel is closed and empty: recover_order returns, the scope ends and
\* par_map_and_emit returns Ok(()).
ConsumerClose ==
    /\ pm_pc = "par"
    /\ cpc = "recv"
    /\ ChanClosed
    /\ cpc' = "closed"
    /\ pm_pc' = "returned"
    /\ result' = "Ok"
    /\ UNCHANGED <<nonParVars, threads, cache_size, input, pool, pulled, wpc, witem, approved,
                   chan, buffer, min_idx, loop_v, loop_end, out>>

\* ------------------------------------ consensus, custom_command and group

\* let cache_size = threads * 3;
CacheFactor == 3
CallBufferSize(t) == t * CacheFactor

Groups == 0..(MaxGroups - 1)
CallWorkers == 1..MaxCallThreads

OkVal == <<"Ok">>
ErrVal(kind, k) == <<"Err", kind, k>>

\* A pipeline that takes no result for an error.
IsErrItemNever(r) == FALSE

\* An item of the pipeline that is an Err: of the read or of the command.
IsErrItem(r) == r \in {"read_err", "cmd_err"}

\* until_err continuing after an error instead of ending the iteration.
UntilErrContinues(item) == FALSE

\* until_err: an Err item is stored into err and ends the iteration (None).
UntilErrStops(item) == IsErrItem(item)

\* The sink: write_all either succeeds or fails.
WriteOutcomes == {"ok", "fail"}

\* The file read of one group in iter_duplicates: seek and read succeed or fail.
ReadOutcomes == {"ok", "err"}

\* The numbers of records a group read by consensus can have.
GroupSizes == {1, 2}

\* The sequence of the j-th record of group k in the input file.
MemberSeq(k, j) == <<"seq", k, j>>

\* poa_graph.consensus() after the records of group k were aligned.
PoaConsensus(k) == <<"poa", k>>

\* A test that sends every group to the alignment engine.
IsSingleNever(n) == FALSE

\* let single = rec.records.len() == 1;
IsSingle(n) == n = 1

\* Only the last member of the group is reported.
OriginalLinesLastOnly(k, n) ==
    <<[g |-> k, tag |-> <<"DUP", n, n>>, seq |-> MemberSeq(k, n)]>>

\* The records `>{bc}_{umi}_DUP_{index + 1}_of_{record_count}` the loop over
\* rec.records writes into `output` when output_originals is set.
OriginalLines(k, n) ==
    [j \in 1..n |-> [g |-> k, tag |-> <<"DUP", j, n>>, seq |-> MemberSeq(k, j)]]

\* The String the worker closure of consensus returns for group k of n records.
ConsensusOutput(k, n, orig) ==
    IF IsSingle(n)
      THEN <<[g |-> k, tag |-> <<"SIN">>, seq |-> MemberSeq(k, 1)]>>
      ELSE (IF orig THEN OriginalLines(k, n) ELSE <<>>) \o
           <<[g |-> k, tag |-> <<"CON", n>>, seq |-> PoaConsensus(k)]>>

\* The String fastq_str the closure of custom_command builds: the records of
\* group k, one after the other, in FASTQ format.
FastqStr(k) == <<"fastq", k>>

\* The first argument of run_command(input, shell, command): the path of the
\* input file.
CommandStdin(k) == <<"path", "input">>

\* What custom_command writes for group k: the bytes run_command returned.
CommandOutput(k) == <<[g |-> k, tag |-> <<"CMD">>, seq |-> <<"stdout", k>>]>>

CallIdle ==
    /\ c_fn = "none" /\ c_threads = 0 /\ c_n = 0 /\ c_pc = "idle"
    /\ c_err = OkVal /\ c_result = <<"none">>
    /\ c_src = 0 /\ c_next_tx = 0 /\ c_next_rx = 0 /\ c_iter_done = FALSE
    /\ c_queue = <<>>
    /\ c_busy = [w \in CallWorkers |-> -1]
    /\ c_read = [k \in Groups |-> "none"]
    /\ c_results = [k \in Groups |-> "none"]
    /\ c_written = <<>> /\ c_wfail = -1
    /\ c_orig = FALSE
    /\ c_size = [k \in Groups |-> 0]
    /\ c_aligned = {}
    /\ c_output = [k \in Groups |-> <<>>]
    /\ c_out = <<>>
    /\ c_stdin = [k \in Groups |-> <<"none">>]

CallInit ==
    /\ c_fn \in {"consensus", "custom_command", "group"}
    \* group takes no thread count
    /\ c_threads \in IF c_fn = "group" THEN {1} ELSE 1..MaxCallThreads
    /\ c_n \in 0..MaxGroups
    /\ c_pc = "start"
    /\ c_err = OkVal /\ c_result = <<"none">>
    /\ c_src = 0 /\ c_next_tx = 0 /\ c_next_rx = 0 /\ c_iter_done = FALSE
    /\ c_queue = <<>>
    /\ c_busy = [w \in CallWorkers |-> -1]
    /\ c_read = [k \in Groups |-> "none"]
    /\ c_results = [k \in Groups |-> "none"]
    /\ c_written = <<>> /\ c_wfail = -1
    \* only consensus takes output_originals
    /\ c_orig \in IF c_fn = "consensus" THEN BOOLEAN ELSE {FALSE}
    /\ c_size = [k \in Groups |-> 0]
    /\ c_aligned = {}
    /\ c_output = [k \in Groups |-> <<>>]
    /\ c_out = <<>>
    /\ c_stdin = [k \in Groups |-> <<"none">>]

\* iter_duplicates(..)?: File::open fails and the function returns the error,
\* or the iterator chain is built.
CallStart ==
    /\ c_pc = "start"
    /\ \/ /\ c_pc' = "returned"
          /\ c_result' = ErrVal("open", 0)
       \/ /\ c_pc' = IF c_fn = "group" THEN "gloop" ELSE "pump"
          /\ UNCHANGED c_result
    /\ UNCHANGED <<nonCallVars, c_stdin, c_src, c_fn, c_threads, c_n, c_err, c_next_tx, c_next_rx,
                   c_iter_done, c_queue, c_busy, c_read, c_results, c_written,
                   c_wfail, c_orig, c_size, c_aligned, c_output, c_out>>

\* The parallel map fills its window: while fewer than buffer_size groups are in
\* flight it pulls the next item of its input iterator and dispatches it.
\* custom_command feeds it iter_duplicates itself (an Err is an item like any
\* other); consensus feeds it iter_duplicates.scan(until_err).
PumpPull ==
    /\ c_pc = "pump"
    /\ ~c_iter_done
    /\ c_next_tx < c_next_rx + CallBufferSize(c_threads)
    /\ IF c_src = c_n
         THEN /\ c_iter_done' = TRUE
              /\ UNCHANGED <<c_read, c_queue, c_src, c_next_tx, c_err, c_size>>
         ELSE \E r \in ReadOutcomes :
              /\ c_read' = [c_read EXCEPT ![c_src] = r]
              /\ c_src' = c_src + 1
              /\ IF c_fn = "consensus" /\ r = "err"
                   THEN /\ c_err' = ErrVal("read_err", c_src)
                        /\ c_iter_done' = UntilErrStops("read_err")
                        /\ UNCHANGED <<c_queue, c_next_tx, c_size>>
                   ELSE /\ c_queue' = Append(c_queue, c_next_tx)
                        /\ c_next_tx' = c_next_tx + 1
                        /\ IF c_fn = "consensus"
                             THEN \E n \in GroupSizes :
                                    c_size' = [c_size EXCEPT ![c_next_tx] = n]
                             ELSE UNCHANGED c_size
                        /\ UNCHANGED <<c_err, c_iter_done>>
    /\ UNCHANGED <<nonCallVars, c_stdin, c_fn, c_threads, c_n, c_pc, c_result, c_next_rx,
                   c_busy, c_results, c_written, c_wfail, c_orig, c_aligned,
                   c_output, c_out>>

\* The window is full or the input is exhausted: next() goes on to wait.
PumpEnd ==
    /\ c_pc = "pump"
    /\ c_iter_done \/ ~(c_next_tx < c_next_rx + CallBufferSize(c_threads))
    /\ c_pc' = "wait"
    /\ UNCHANGED <<nonCallVars, c_stdin, c_src, c_fn, c_threads, c_n, c_err, c_result, c_next_tx,
                   c_next_rx, c_iter_done, c_queue, c_busy, c_read, c_results,
                   c_written, c_wfail, c_orig, c_size, c_aligned, c_output, c_out>>

\* A worker thread of the parallel map takes the next dispatched group.
CallWorkerTake(w) ==
    /\ c_pc \in {"pump", "wait"}
    /\ w <= c_threads
    /\ c_busy[w] = -1
    /\ c_queue # <<>>
    /\ c_busy' = [c_busy EXCEPT ![w] = Head(c_queue)]
    /\ c_queue' = Tail(c_queue)
    /\ UNCHANGED <<nonCallVars, c_stdin, c_src, c_fn, c_threads, c_n, c_pc, c_err, c_result,
                   c_next_tx, c_next_rx, c_iter_done, c_read, c_results, c_written,
                   c_wfail, c_orig, c_size, c_aligned, c_output, c_out>>

\* The worker closure returns. custom_command: `rec?` hands a read error on,
\* otherwise run_command succeeds or fails. consensus: the closure returns the
\* output String; unless the group is a single record it creates an alignment
\* engine and aligns every record of the group.
CallWorkerCompute(w) ==
    /\ c_pc \in {"pump", "wait"}
    /\ c_busy[w] # -1
    /\ LET k == c_busy[w]
       IN /\ \E r \in {"ok", "read_err", "cmd_err"} :
               /\ IF c_fn = "consensus" THEN r = "ok"
                  ELSE IF c_read[k] = "err" THEN r = "read_err"
                  ELSE r \in {"ok", "cmd_err"}
               /\ c_results' = [c_results EXCEPT ![k] = r]
               /\ c_output' = [c_output EXCEPT ![k] =
                     IF c_fn = "consensus"
                       THEN ConsensusOutput(k, c_size[k], c_orig)
                       ELSE IF r = "ok" THEN CommandOutput(k) ELSE <<>>]
               /\ c_stdin' = IF c_fn = "custom_command" /\ r # "read_err"
                                THEN [c_stdin EXCEPT ![k] = CommandStdin(k)]
                                ELSE c_stdin
          /\ c_aligned' = IF c_fn = "consensus" /\ ~IsSingle(c_size[k])
                            THEN c_aligned \cup {k} ELSE c_aligned
    /\ c_busy' = [c_busy EXCEPT ![w] = -1]
    /\ UNCHANGED <<nonCallVars, c_src, c_fn, c_threads, c_n, c_pc, c_err, c_result,
                   c_next_tx, c_next_rx, c_iter_done, c_queue, c_read, c_written,
                   c_wfail, c_orig, c_size, c_out>>

\* The parallel map yields the result of group next_rx, in order, to what
\* follows it: custom_command's .scan(&mut err, until_err).for_each(write_all
\* .expect(..)), consensus's .for_each(write_all.unwrap()). A write_all
\* that fails has written some of the bytes, but not all of them.
Yield ==
    /\ c_pc = "wait"
    /\ c_next_rx < c_next_tx
    /\ c_results[c_next_rx] # "none"
    /\ c_next_rx' = c_next_rx + 1
    /\ LET k == c_next_rx
           item == c_results[k]
       IN IF c_fn = "custom_command" /\ IsErrItem(item)
            THEN /\ c_err' = ErrVal(item, k)
                 /\ IF UntilErrStops(item)
                      THEN c_pc' = "returned" /\ c_result' = ErrVal(item, k)
                      ELSE c_pc' = "pump" /\ UNCHANGED c_result
                 /\ UNCHANGED <<c_written, c_wfail, c_out>>
            ELSE \E wr \in WriteOutcomes :
                 IF wr = "ok"
                   THEN /\ c_written' = Append(c_written, k)
                        /\ c_out' = c_out \o c_output[k]
                        /\ c_pc' = "pump"
                        /\ UNCHANGED <<c_err, c_result, c_wfail>>
                   ELSE /\ c_wfail' = k
                        /\ \E m \in 0..(Len(c_output[k]) - 1) :
                             c_out' = c_out \o SubSeq(c_output[k], 1, m)
                        /\ c_pc' = "panicked"
                        /\ c_result' = <<"panic", "Could not write to output">>
                        /\ UNCHANGED <<c_err, c_written>>
    /\ UNCHANGED <<nonCallVars, c_stdin, c_src, c_fn, c_threads, c_n, c_next_tx, c_iter_done,
                   c_queue, c_busy, c_read, c_results, c_orig, c_size, c_aligned,
                   c_output>>

\* Nothing is in flight and the input is exhausted: the parallel map returns
\* None, for_each ends and the function returns err.
PipeEnd ==
    /\ c_pc = "wait"
    /\ c_next_rx = c_next_tx
    /\ c_pc' = "returned"
    /\ c_result' = c_err
    /\ UNCHANGED <<nonCallVars, c_stdin, c_src, c_fn, c_threads, c_n, c_err, c_next_tx, c_next_rx,
                   c_iter_done, c_queue, c_busy, c_read, c_results, c_written,
                   c_wfail, c_orig, c_size, c_aligned, c_output, c_out>>

\* group: one turn of .scan(&mut err, until_err).try_for_each(..): the next
\* group is read; a read error goes to err and ends the iteration, a group is
\* written with write_read(..)?, whose error is returned at once.
GroupStep ==
    /\ c_pc = "gloop"
    /\ IF c_src = c_n
         THEN /\ c_pc' = "returned"
              /\ c_result' = c_err
              /\ UNCHANGED <<c_read, c_err, c_src, c_written, c_wfail>>
         ELSE \E r \in ReadOutcomes :
              /\ c_read' = [c_read EXCEPT ![c_src] = r]
              /\ c_src' = c_src + 1
              /\ IF r = "err"
                   THEN /\ c_err' = ErrVal("read_err", c_src)
                        /\ IF UntilErrStops("read_err")
                             THEN /\ c_pc' = "returned"
                                  /\ c_result' = ErrVal("read_err", c_src)
                             ELSE UNCHANGED <<c_pc, c_result>>
                        /\ UNCHANGED <<c_written, c_wfail>>
                   ELSE \E wr \in WriteOutcomes :
                        IF wr = "ok"
                          THEN /\ c_written' = Append(c_written, c_src)
                               /\ UNCHANGED <<c_pc, c_result, c_err, c_wfail>>
                          ELSE /\ c_wfail' = c_src
                               /\ c_pc' = "returned"
                               /\ c_result' = ErrVal("write", c_src)
                               /\ UNCHANGED <<c_err, c_written>>
    /\ UNCHANGED <<nonCallVars, c_stdin, c_fn, c_threads, c_n, c_next_tx, c_next_rx,
                   c_iter_done, c_queue, c_busy, c_results, c_orig, c_size,
                   c_aligned, c_output, c_out>>

\* --------------------------------- DuplicateMap and get_duplicates

\* The id strings of the index rows the model reads, as sequences of characters:
\* "", "AB", "AC", "A_", "A_B", "B_A".
IdStrings ==
    {<<>>, <<"A", "B">>, <<"A", "C">>, <<"A", "_">>, <<"A", "_", "B">>,
     <<"B", "_", "A">>}

\* The byte lengths (rec_len) a record of the model can have.
RecLens == {2, 3}

\* s.find('_'): the 0-based offset of the first '_', or -1 for None.
FindUnderscore(s) ==
    IF \E k \in 1..Len(s) : s[k] = "_"
      THEN (CHOOSE k \in 1..Len(s) : s[k] = "_" /\ \A j \in 1..(k - 1) : s[j] # "_") - 1
      ELSE -1

\* RecordIdentifier::from_string panics on the empty string: s.len() - 1
\* underflows (or, wrapped, is out of range for the slice).
FromStringPanics(s) == FindUnderscore(s) = -1 /\ Len(s) = 0

\* RecordIdentifier::from_string: head = s[..split_loc], tail = s[(split_loc + 1)..]
FromString(s) ==
    LET split_loc == IF FindUnderscore(s) # -1 THEN FindUnderscore(s) ELSE Len(s) - 1
    IN [head |-> SubSeq(s, 1, split_loc), tail |-> SubSeq(s, split_loc + 2, Len(s))]

\* The entry of by_id for id, or 0.
ByIdIndex(by_id, id) ==
    IF \E k \in 1..Len(by_id) : by_id[k].id = id
      THEN CHOOSE k \in 1..Len(by_id) : by_id[k].id = id
      ELSE 0

\* An insert that replaces the group's positions instead of pushing to them.
ByIdInsertOverwrite(by_id, id, rec_pos) ==
    IF ByIdIndex(by_id, id) # 0
      THEN [by_id EXCEPT ![ByIdIndex(by_id, id)].positions = <<rec_pos>>]
      ELSE Append(by_id, [id |-> id, positions |-> <<rec_pos>>])

\* self.by_id.entry(id).and_modify(|e| e.push(rec_pos)).or_insert(vec![rec_pos])
ByIdInsert(by_id, id, rec_pos) ==
    IF ByIdIndex(by_id, id) # 0
      THEN [by_id EXCEPT ![ByIdIndex(by_id, id)].positions = Append(@, rec_pos)]
      ELSE Append(by_id, [id |-> id, positions |-> <<rec_pos>>])

\* self.pos_to_id.insert(record.pos, id.clone()): an IndexMap keeps the place of
\* a key that is already present and replaces its value.
PosToIdInsert(p2i, pos, id) ==
    IF \E k \in 1..Len(p2i) : p2i[k].pos = pos
      THEN [k \in 1..Len(p2i) |->
              IF p2i[k].pos = pos THEN [pos |-> pos, id |-> id] ELSE p2i[k]]
      ELSE Append(p2i, [pos |-> pos, id |-> id])

\* A loop that skips no row.
RowSkippedNever(row) == FALSE

\* if record.ignored { continue; }
RowSkipped(row) == row.ignored

SumSeq(s) ==
    LET RECURSIVE Sum(_)
        Sum(k) == IF k = 0 THEN 0 ELSE s[k] + Sum(k - 1)
    IN Sum(Len(s))

\* The statistics of lines 176-202.
DupStats(by_id, total_reads) ==
    LET sizes == [k \in 1..Len(by_id) |-> Len(by_id[k].positions)]
        dupSizes == {sizes[k] : k \in {j \in 1..Len(by_id) : sizes[j] > 1}}
        duplicate_reads ==
            SumSeq([k \in 1..Len(by_id) |-> IF sizes[k] > 1 THEN sizes[k] ELSE 0])
    IN [total_reads |-> total_reads,
        duplicate_reads |-> duplicate_reads,
        duplicate_ids |-> Cardinality({k \in 1..Len(by_id) : sizes[k] > 1}),
        distribution |->
            [n \in dupSizes \cup {1} |->
                IF n = 1 THEN total_reads - duplicate_reads
                ELSE Cardinality({k \in 1..Len(by_id) : sizes[k] = n})],
        \* duplicate_reads as f64 / total_reads as f64, kept as the two operands
        proportion_duplicate |-> <<duplicate_reads, total_reads>>]

NoStats == [total_reads |-> 0]

DupIdle ==
    /\ d_pc = "idle" /\ d_rows = <<>> /\ d_filepos = 0
    /\ d_by_id = <<>> /\ d_pos_to_id = <<>> /\ d_total_reads = 0
    /\ d_stats = NoStats
    /\ d_header = "unread" /\ d_bad_row = FALSE

\* get_duplicates, lines 152-160: an empty map and zeroed statistics.
DupInit ==
    /\ d_pc = "open" /\ d_rows = <<>> /\ d_filepos = 0
    /\ d_by_id = <<>> /\ d_pos_to_id = <<>> /\ d_total_reads = 0
    /\ d_stats = NoStats
    /\ d_header = "unread" /\ d_bad_row = FALSE

\* The first line of an index file: well formed, not readable (the file does
\* not open or read_line fails), not starting with '#', or a '#' followed by
\* something that is not the metadata JSON.
HeaderKinds == {"ok", "unreadable", "no_hash", "bad_json"}

\* create_reader: File::open(..)? and read_line(..)? return the error,
\* assert!(header.starts_with('#')) panics, serde_json::from_str(..)? returns
\* the error, otherwise the row reader is handed out.
CreateReader(header) ==
    IF header = "unreadable" THEN "error"
    ELSE IF header = "no_hash" THEN "panicked"
    ELSE IF header = "bad_json" THEN "error"
    ELSE "read"

\* self.index_records()?: the header line is read by create_reader.
DupOpen ==
    /\ d_pc = "open"
    /\ \E header \in HeaderKinds :
         /\ d_header' = header
         /\ d_pc' = CreateReader(header)
    /\ UNCHANGED <<nonDupVars, d_rows, d_filepos, d_by_id, d_pos_to_id,
                   d_total_reads, d_stats, d_bad_row>>

\* One turn of the loop of lines 163-172 on a well-formed row. The rows of an
\* index are in file order: each record starts where the one before ended.
DupReadRow ==
    /\ d_pc = "read"
    /\ Len(d_rows) < MaxRows
    /\ \E id \in IdStrings, len \in RecLens, ign \in BOOLEAN :
        LET row == [id |-> id, pos |-> d_filepos, rec_len |-> len, ignored |-> ign]
        IN /\ d_rows' = Append(d_rows, row)
           /\ d_filepos' = d_filepos + len
           /\ IF RowSkipped(row)
                THEN UNCHANGED <<d_pc, d_by_id, d_pos_to_id, d_total_reads>>
                ELSE /\ d_total_reads' = d_total_reads + 1
                     /\ IF FromStringPanics(row.id)
                          THEN /\ d_pc' = "panicked"
                               /\ UNCHANGED <<d_by_id, d_pos_to_id>>
                          ELSE /\ d_pos_to_id' =
                                    PosToIdInsert(d_pos_to_id, row.pos, FromString(row.id))
                               /\ d_by_id' =
                                    ByIdInsert(d_by_id, FromString(row.id),
                                               [pos |-> row.pos, length |-> row.rec_len])
                               /\ UNCHANGED d_pc
    /\ UNCHANGED <<nonDupVars, d_stats, d_header, d_bad_row>>

\* `let record: IndexRecord = read?;` on a row that does not deserialize (a
\* field is missing or is not a number): the error is returned.
DupBadRow ==
    /\ d_pc = "read"
    /\ Len(d_rows) < MaxRows
    /\ d_bad_row' = TRUE
    /\ d_pc' = "error"
    /\ UNCHANGED <<nonDupVars, d_rows, d_filepos, d_by_id, d_pos_to_id,
                   d_total_reads, d_stats, d_header>>

\* The rows are exhausted: lines 174-206 compute the statistics and return
\* Ok((map, stats)).
DupFinish ==
    /\ d_pc = "read"
    /\ d_stats' = DupStats(d_by_id, d_total_reads)
    /\ d_pc' = "done"
    /\ UNCHANGED <<nonDupVars, d_rows, d_filepos, d_by_id, d_pos_to_id,
                   d_total_reads, d_header, d_bad_row>>

\* ------------------------------------------- UMIGroupCollectionIter::next

\* The id strings of the index rows of the iterator's input: "A_B", "B_A", "AB".
IterIdStrings == {<<"A", "_", "B">>, <<"B", "_", "A">>, <<"A", "B">>}

\* The records of the iterator's input file all have the shortest length.
IterRecLen == CHOOSE l \in RecLens : \A m \in RecLens : l <= m

\* The index rows of a file of n records, row k carrying the id and the
\* ignored flag f[k] gives it and the position of the k-th record.
IterRows(n, f) ==
    [k \in 1..n |-> [id |-> f[k][1], pos |-> (k - 1) * IterRecLen,
                     rec_len |-> IterRecLen, ignored |-> f[k][2]]]

\* get_duplicates on the rows: every row that is not ignored is inserted.
RECURSIVE BuildMap(_, _)
BuildMap(rows, n) ==
    IF n = 0 THEN [by_id |-> <<>>, pos_to_id |-> <<>>]
    ELSE LET m == BuildMap(rows, n - 1)
             row == rows[n]
         IN IF RowSkipped(row) THEN m
            ELSE [by_id |-> ByIdInsert(m.by_id, FromString(row.id),
                                        [pos |-> row.pos, length |-> row.rec_len]),
                  pos_to_id |-> PosToIdInsert(m.pos_to_id, row.pos,
                                              FromString(row.id))]

\* DuplicateMap::records_by_pos: the positions of the group the record at pos
\* belongs to, or None.
RecordsByPos(dup, pos) ==
    IF \E k \in 1..Len(dup.pos_to_id) : dup.pos_to_id[k].pos = pos
      THEN LET id == (CHOOSE e \in {dup.pos_to_id[k] : k \in 1..Len(dup.pos_to_id)} :
                        e.pos = pos).id
           IN IF ByIdIndex(dup.by_id, id) # 0
                THEN dup.by_id[ByIdIndex(dup.by_id, id)].positions
                ELSE None
      ELSE None

\* A counter that a yielded group leaves where it was.
IdxAfterYieldStuck(cur) == cur

\* self.current_idx += 1
IdxAfterYield(cur) == cur + 1

\* A filter that lets singleton groups through.
SkipSingletonNever(dup_only, group_size) == FALSE

\* if self.duplicates_only && group_size == 1 { return self.next(); }
SkipSingleton(dup_only, group_size) == dup_only /\ group_size = 1

\* A random fetch made through the handle the sequential parser reads from.
SeqOffAfterFetchShared(seq_off, pos, length) == pos + length

\* get_rec_random seeks and reads rnd_reader, which UMIGroupCollection::new
\* opened with a File::open of its own: the offset of the handle behind
\* seq_parser stays where it was.
SeqOffAfterFetch(seq_off, pos, length) == seq_off

\* The offset of the sequential handle after the members 2..n of group were
\* fetched one after the other.
RECURSIVE SeqOffAfterFetches(_, _, _)
SeqOffAfterFetches(seq_off, group, n) ==
    IF n <= 1 THEN seq_off
    ELSE SeqOffAfterFetch(SeqOffAfterFetches(seq_off, group, n - 1),
                          group[n].pos, group[n].length)

\* rec.position().byte() of the record seq_parser returns together with row
\* k: the records lie one after the other from where the sequential handle
\* stands.
RecPosition(k) == i_seq_off + (i_rows[k].pos - i_rows[i_cursor + 1].pos)

\* The record at row k makes next call itself again: it was visited, it is
\* marked ignored, or it is a singleton and only duplicates are wanted.
IterSkips(k) ==
    \/ RecPosition(k) \in i_visited
    \/ i_rows[k].ignored
    \/ /\ RecordsByPos(i_duplicates, RecPosition(k)) # None
       /\ SkipSingleton(i_dup_only, Len(RecordsByPos(i_duplicates, RecPosition(k))))

IterIdle ==
    /\ i_pc = "idle" /\ i_rows = <<>>
    /\ i_duplicates = [by_id |-> <<>>, pos_to_id |-> <<>>]
    /\ i_dup_only = FALSE /\ i_cursor = 0 /\ i_visited = {}
    /\ i_current_idx = 0 /\ i_yielded = <<>> /\ i_last = "none"
    /\ i_failed = FALSE
    /\ i_seq_off = 0 /\ i_rnd_off = 0

\* UMIGroupCollection::new followed by stream_iter(duplicates_only) on an
\* index whose rows describe the records of the input file in file order.
IterInit ==
    /\ i_pc = "iter"
    /\ \E n \in 0..MaxIterRows :
         \E f \in [1..n -> IterIdStrings \X BOOLEAN] :
            /\ i_rows = IterRows(n, f)
            /\ i_duplicates = BuildMap(IterRows(n, f), n)
    /\ i_dup_only \in BOOLEAN
    /\ i_cursor = 0 /\ i_visited = {}
    /\ i_current_idx = 0 /\ i_yielded = <<>> /\ i_last = "none"
    /\ i_failed = FALSE
    /\ i_seq_off = 0 /\ i_rnd_off = 0

\* One call of UMIGroupCollectionIter::next, the calls it makes of itself
\* included. The records up to the first one that is not skipped are taken
\* from seq_parser; that record opens a group, whose other members are
\* fetched with get_rec_random, each of which can fail.
IterNextCall ==
    /\ i_pc = "iter"
    \* (cand, k and group are bound by \E over a singleton: one value each)
    /\ \E cand \in {{k \in (i_cursor + 1)..Len(i_rows) : ~IterSkips(k)}} :
          IF cand = {}
            THEN \* next_record returned Ok(None)
                 /\ i_cursor' = Len(i_rows)
                 /\ i_seq_off' = IF i_cursor = Len(i_rows) THEN i_seq_off
                                  ELSE RecPosition(Len(i_rows)) +
                                       i_rows[Len(i_rows)].rec_len
                 /\ i_last' = "end"
                 /\ UNCHANGED <<i_visited, i_current_idx, i_yielded, i_failed,
                                i_rnd_off>>
            ELSE \E k \in {CHOOSE x \in cand : \A y \in cand : x <= y} :
                 \E group \in {RecordsByPos(i_duplicates, RecPosition(k))} :
                 LET position == RecPosition(k)
                     taken == position + i_rows[k].rec_len
                 IN /\ i_cursor' = k
                    /\ IF group = None
                         THEN \* .context("Could not find")?
                              /\ i_last' = "err"
                              /\ i_seq_off' = taken
                              /\ UNCHANGED <<i_visited, i_current_idx, i_yielded,
                                             i_failed, i_rnd_off>>
                         ELSE \E fail \in 0..(Len(group) - 1) :
                                IF fail = 0
                                  THEN /\ i_visited' = i_visited \cup
                                            {group[j].pos : j \in 2..Len(group)}
                                       /\ i_yielded' = Append(i_yielded,
                                            [id |-> FromString(i_rows[k].id),
                                             index |-> i_current_idx,
                                             records |-> <<position>> \o
                                                [j \in 1..(Len(group) - 1) |->
                                                    group[j + 1].pos],
                                             ignore |-> FALSE])
                                       /\ i_current_idx' = IdxAfterYield(i_current_idx)
                                       /\ i_last' = "group"
                                       /\ i_seq_off' =
                                            SeqOffAfterFetches(taken, group, Len(group))
                                       /\ i_rnd_off' =
                                            IF Len(group) = 1 THEN i_rnd_off
                                            ELSE group[Len(group)].pos +
                                                 group[Len(group)].length
                                       /\ UNCHANGED i_failed
                                  ELSE \* get_rec_random(pos)? fails on the
                                       \* member after `fail` fetched ones
                                       /\ i_visited' = i_visited \cup
                                            {group[j].pos : j \in 2..(fail + 1)}
                                       /\ i_last' = "err"
                                       /\ i_failed' = TRUE
                                       /\ i_seq_off' =
                                            SeqOffAfterFetches(taken, group, fail)
                                       /\ i_rnd_off' = group[fail + 1].pos
                                       /\ UNCHANGED <<i_current_idx, i_yielded>>
    /\ UNCHANGED <<nonIterVars, i_pc, i_rows, i_duplicates, i_dup_only>>

\* --------------------------------- RecordIdentifier: from_string, to_string

\* The characters of the id strings: letters and the separator.
IdChars == {"A", "B", "_"}

\* The id strings of up to MaxIdLen characters.
IdInputs == UNION {[1..n -> IdChars] : n \in 0..MaxIdLen}

\* impl Display for RecordIdentifier: the head alone when the tail is empty,
\* otherwise head, '_' and tail.
Display(ident) ==
    IF ident.tail = <<>> THEN ident.head
    ELSE ident.head \o <<"_">> \o ident.tail

NoIdent == [head |-> <<>>, tail |-> <<>>]

IdIdle == f_pc = "idle" /\ f_s = <<>> /\ f_ident = NoIdent /\ f_str = <<>>

IdInit == f_pc = "start" /\ f_s \in IdInputs /\ f_ident = NoIdent /\ f_str = <<>>

\* RecordIdentifier::from_string(&f_s)
IdFromString ==
    /\ f_pc = "start"
    /\ IF FromStringPanics(f_s)
         THEN f_pc' = "panicked" /\ UNCHANGED f_ident
         ELSE f_pc' = "parsed" /\ f_ident' = FromString(f_s)
    /\ UNCHANGED <<nonIdVars, f_s, f_str>>

\* f_ident.to_string()
IdToString ==
    /\ f_pc = "parsed"
    /\ f_str' = Display(f_ident)
    /\ f_pc' = "printed"
    /\ UNCHANGED <<nonIdVars, f_s, f_ident>>

\* ------------------------------------------------------ Record::add_metadata

ReadTypes == {"Consensus", "Single", "Original", "Ignored"}

\* The average qualities of the model, in hundredths.
AvgQuals == {0, 1234}

\* The arguments add_metadata is called with: a Single read is the only member
\* of its group, and group_idx is the place of a member in its group.
MetaArgs ==
    {a \in [umi_group : 0..MaxOrdinal, read_type : ReadTypes,
             group_idx : 1..MaxMembers, group_size : 1..MaxMembers,
             avg_qual : AvgQuals] :
        /\ a.group_idx <= a.group_size
        /\ a.read_type = "Single" => a.group_size = 1}

\* let read_type_label = match read_type { .. }
ReadTypeLabel(read_type, group_idx, group_size) ==
    IF read_type = "Consensus" THEN <<"CON_", group_size>>
    ELSE IF read_type = "Single" THEN <<"SIN">>
    ELSE IF read_type = "Original" THEN <<"ORIG_", group_idx, "_OF_", group_size>>
    ELSE <<"IGN">>

\* What add_metadata appends to the id: " UT:Z:{read_type_label}
\* UG:i:{umi_group}" and, unless the read is Original or Ignored,
\* " QL:f:{avg_qual:.2}".
MetadataTags(a) ==
    <<" UT:Z:">> \o ReadTypeLabel(a.read_type, a.group_idx, a.group_size) \o
    <<" UG:i:", a.umi_group>> \o
    (IF a.read_type \notin {"Original", "Ignored"}
       THEN <<" QL:f:", a.avg_qual>> ELSE <<>>)

NoArgs == [umi_group |-> 0, read_type |-> "none", group_idx |-> 0,
           group_size |-> 0, avg_qual |-> 0]

MetaIdle == m_pc = "idle" /\ m_args = NoArgs /\ m_id = <<>>

MetaInit == m_pc = "start" /\ m_args \in MetaArgs /\ m_id = <<"read">>

\* self.add_metadata(umi_group, read_type, group_idx, group_size, avg_qual)
AddMetadata ==
    /\ m_pc = "start"
    /\ m_id' = m_id \o MetadataTags(m_args)
    /\ m_pc' = "done"
    /\ UNCHANGED <<nonMetaVars, m_args>>

\* ------------------------------------------------- group quality (io.rs)

\* The bytes of the qual strings of the model: '+' and 'I'.
QualBytes == {43, 73}

\* The qual strings of 1..n bytes.
QualStrings(n) == UNION {[1..l -> QualBytes] : l \in 1..n}

\* Record::phred_quality: each byte of qual minus 33.
PhredQuality(qual) == [k \in 1..Len(qual) |-> qual[k] - 33]

\* Record::phred_quality_total
PhredQualityTotal(qual) == SumSeq(PhredQuality(qual))

\* Record::phred_quality_avg: total / len rounded to two decimals (f64::round,
\* half away from zero), as a number of hundredths.
PhredQualityAvg(qual) ==
    (2 * 100 * PhredQualityTotal(qual) + Len(qual)) \div (2 * Len(qual))

\* The mean over all bases of all records.
GroupAvgQualPerBase(records) ==
    <<100 * SumSeq([k \in 1..Len(records) |-> PhredQualityTotal(records[k])]),
      SumSeq([k \in 1..Len(records) |-> Len(records[k])])>>

\* records.iter().map(|r| r.phred_quality_avg()).sum::<f64>() / (records.len() as f64)
GroupAvgQual(records) ==
    <<SumSeq([k \in 1..Len(records) |-> PhredQualityAvg(records[k])]), Len(records)>>

QualIdle == q_pc = "idle" /\ q_records = <<>> /\ q_avg_qual = <<0, 1>>

\* The records of a group, as next has collected them.
QualInit ==
    /\ q_pc = "start"
    /\ q_records \in UNION {[1..n -> QualStrings(MaxBases)] : n \in 1..MaxQualMembers}
    /\ q_avg_qual = <<0, 1>>

\* next, lines 347-348
AvgQual ==
    /\ q_pc = "start"
    /\ q_avg_qual' = GroupAvgQual(q_records)
    /\ q_pc' = "done"
    /\ UNCHANGED <<nonQualVars, q_records>>

\* ------------------------------------------------ index generation (index.rs)

\* f64::INFINITY, the maximum of the interval "0,inf": larger than every
\* length and quality of the model.
Infinity == 1000000

\* The intervals --len can be given: the default "0,15000" and "1,3".
LenIntervals == {[min |-> 0, max |-> 15000], [min |-> 1, max |-> 3]}

\* The intervals --qual can be given, in hundredths: the default "0,inf" and
\* "10,40".
QualIntervals == {[min |-> 0, max |-> Infinity], [min |-> 1000, max |-> 4000]}

\* The qual strings of the reads of the model: lengths 1, 2, 3 and averages
\* 10, 25, 40.
GenQuals == {<<43>>, <<43, 73>>, <<73, 73, 73>>}

\* What the header of a read gives: 0 when the regex does not match (or the
\* read is not in the cluster file), else the number of capture groups.
GenMatches == {0, 1, 2}

\* ArgInterval::contains
Contains(interval, v) == (interval.min < v) /\ (v < interval.max)

\* filter
Filter(read, opts) ==
    Contains(opts.len, Len(read.qual)) /\ Contains(opts.quality, PhredQualityAvg(read.qual))

NoMeta == [read_count |-> 0, matched_read_count |-> 0, unmatched_read_count |-> 0,
           filtered_reads |-> 0, avg_qual |-> <<0, 1>>, avg_len |-> <<0, 1>>]

NoOpts == [len |-> [min |-> 0, max |-> 0], quality |-> [min |-> 0, max |-> 0]]

\* The file at the output path before the run: none, or one left by an
\* earlier run, whose content is no part of this run.
AbsentOut == [state |-> "absent", meta |-> FALSE, rows |-> <<>>]

OldOut == [state |-> "old", meta |-> FALSE, rows |-> <<>>]

\* IndexWriter::write_record serializes the row into self.wtr, the csv writer
\* over the temporary file: the file at out_file stays as it is.
OutAfterWriteRecordToOutFile(file, rows) == [state |-> "created", meta |-> FALSE, rows |-> rows]
OutAfterWriteRecord(file, rows) == file

GenIdle ==
    /\ g_pc = "idle" /\ g_mode = "none" /\ g_skip = FALSE /\ g_opts = NoOpts
    /\ g_reads = <<>> /\ g_rows = <<>> /\ g_meta = NoMeta /\ g_expected = 0
    /\ g_totals = <<0, 0>> /\ g_paired = <<>> /\ g_out = AbsentOut

\* The state at the head of the loop: nothing read, expected_len = None.
GenInit ==
    /\ g_pc = "loop"
    /\ g_mode \in {"regex", "cluster"}
    /\ g_skip \in BOOLEAN
    /\ g_opts \in [len : LenIntervals, quality : QualIntervals]
    /\ g_reads = <<>> /\ g_rows = <<>> /\ g_meta = NoMeta /\ g_expected = 0
    /\ g_totals = <<0, 0>> /\ g_paired = <<>>
    /\ g_out \in {AbsentOut, OldOut}

\* One turn of the loop of iter_lines_with_regex (lines 195-242) or of
\* iter_lines_with_cluster_file (lines 313-344) on the next record of the
\* file. outcome tells what the environment does to the turn: "invalid" is a
\* record needletail cannot parse, "utf8" one Record::try_from rejects,
\* "write_err" a failing write of the row.
GenRead ==
    /\ g_pc = "loop"
    /\ Len(g_reads) < MaxReads
    /\ \E qual \in GenQuals, match \in GenMatches,
          outcome \in {"ok", "invalid", "utf8", "write_err"} :
        LET read == [qual |-> qual, match |-> match]
            ignored == ~Filter(read, g_opts)
            counted == [g_meta EXCEPT !.read_count = @ + 1]
            filtered == [counted EXCEPT
                            !.filtered_reads = @ + (IF ignored THEN 1 ELSE 0)]
            row == [pos |-> Len(g_reads) + 1, n_bases |-> Len(qual),
                    avg_qual |-> PhredQualityAvg(qual), ignored |-> ignored]
            expected == IF g_expected = 0 THEN match ELSE g_expected
        IN /\ g_mode = "cluster" => match <= 1
           /\ g_reads' = Append(g_reads, read)
           /\ IF outcome = "invalid"
                THEN \* rec.expect("Invalid record")
                     /\ g_pc' = "panicked" /\ g_meta' = counted
                     /\ UNCHANGED <<g_rows, g_expected, g_totals, g_out>>
              ELSE IF outcome = "utf8"
                THEN \* Record::try_from(sequence_rec)?
                     /\ g_pc' = "error" /\ g_meta' = counted
                     /\ UNCHANGED <<g_rows, g_expected, g_totals, g_out>>
              ELSE IF match = 0
                THEN IF ~g_skip
                       THEN \* bail!
                            /\ g_pc' = "error" /\ g_meta' = filtered
                            /\ UNCHANGED <<g_rows, g_expected, g_totals, g_out>>
                       ELSE \* unmatched_read_count += 1; continue
                            /\ g_meta' = [filtered EXCEPT !.unmatched_read_count = @ + 1]
                            /\ UNCHANGED <<g_pc, g_rows, g_expected, g_totals, g_out>>
              ELSE IF g_mode = "regex" /\ expected # match
                THEN \* bail!(DifferentMatchCounts)
                     /\ g_pc' = "error" /\ g_meta' = filtered
                     /\ g_expected' = expected
                     /\ UNCHANGED <<g_rows, g_totals, g_out>>
              ELSE IF outcome = "write_err"
                THEN \* wtr.write_record(..)?: the cluster loop has counted
                     \* the read as matched before the write.
                     /\ g_pc' = "error"
                     /\ g_meta' = IF g_mode = "cluster"
                                    THEN [filtered EXCEPT !.matched_read_count = @ + 1]
                                    ELSE filtered
                     /\ g_expected' = IF g_mode = "regex" THEN expected ELSE g_expected
                     /\ UNCHANGED <<g_rows, g_totals, g_out>>
              ELSE /\ g_rows' = Append(g_rows, row)
                   /\ g_out' = OutAfterWriteRecord(g_out, Append(g_rows, row))
                   /\ g_meta' = [filtered EXCEPT !.matched_read_count = @ + 1]
                   /\ g_expected' = IF g_mode = "regex" THEN expected ELSE g_expected
                   /\ g_totals' = <<g_totals[1] + PhredQualityTotal(qual),
                                    g_totals[2] + Len(qual)>>
                   /\ UNCHANGED g_pc
    /\ UNCHANGED <<nonGenVars, g_mode, g_skip, g_opts, g_paired>>

\* fastq_reader.next() returns None: the averages are computed (as the
\* operands of the two divisions) and Ok(()) is returned.
GenFinish ==
    /\ g_pc = "loop"
    /\ g_meta' = [g_meta EXCEPT
                    !.avg_qual = <<g_totals[1], g_meta.matched_read_count>>,
                    !.avg_len = <<g_totals[2], g_meta.matched_read_count>>]
    /\ g_pc' = "done"
    /\ UNCHANGED <<nonGenVars, g_mode, g_skip, g_opts, g_reads, g_rows, g_expected,
                   g_totals, g_paired, g_out>>

\* IndexWriter::finish_write, which construct_index calls after the loop has
\* returned Ok(()). outcome tells which of its fallible steps fails: the flush
\* of the csv writer, File::create, the writeln! of the metadata line, or the
\* copy of the temporary file, which may stop after any number of rows.
GenFinishWrite ==
    /\ g_pc = "done"
    /\ \E outcome \in {"ok", "flush_err", "create_err", "meta_err", "copy_err"} :
         /\ g_pc' = IF outcome = "ok" THEN "written" ELSE "finish_err"
         /\ IF outcome \in {"flush_err", "create_err"}
              THEN UNCHANGED g_out
            ELSE IF outcome = "meta_err"
              THEN g_out' = [state |-> "created", meta |-> FALSE, rows |-> <<>>]
            ELSE IF outcome = "copy_err"
              THEN \E n \in 0..Len(g_rows) :
                      g_out' = [state |-> "created", meta |-> TRUE,
                                rows |-> SubSeq(g_rows, 1, n)]
            ELSE g_out' = [state |-> "created", meta |-> TRUE, rows |-> g_rows]
    /\ UNCHANGED <<nonGenVars, g_mode, g_skip, g_opts, g_reads, g_rows, g_meta,
                   g_expected, g_totals, g_paired>>

\* UMIGroupCollection::next_record on the file the index was generated from:
\* seq_parser returns the next record of the file, `records` the next row of
\* the index, whatever record that row was written for. The byte offset of
\* the k-th record of the file is written k, as in the rows of GenRead.
GenNextRecord ==
    /\ g_pc = "written"
    /\ IF Len(g_paired) = Len(g_reads)
         THEN \* self.seq_parser.next() is None: Ok(None)
              /\ g_pc' = "iter_end"
              /\ UNCHANGED g_paired
         ELSE IF Len(g_paired) = Len(g_rows)
         THEN \* .context("No corresponding index record")
              /\ g_pc' = "iter_err"
              /\ UNCHANGED g_paired
         ELSE /\ g_paired' = Append(g_paired,
                                    [idx |-> g_rows[Len(g_paired) + 1],
                                     rec_pos |-> Len(g_paired) + 1])
              /\ UNCHANGED g_pc
    /\ UNCHANGED <<nonGenVars, g_mode, g_skip, g_opts, g_reads, g_rows, g_meta,
                   g_expected, g_totals, g_out>>

\* ------------------------- consensus of the consensus crate (consensus/src/call.rs)

\* The threads of the rayon pool.
MxWorkers == 1..MaxMxThreads

\* The file offset of the j-th position of group g: the records of the groups
\* lie interleaved in the input file, each IterRecLen bytes long.
MxPos(g, j) == IterRecLen * ((j - 1) * Len(mx_duplicates) + (g - 1))

\* A lock that every thread can take at any time.
LockFreeAlways(mutex) == TRUE

\* Mutex::lock returns when no other thread holds the guard.
LockFree(mutex) == mutex.owner = 0

\* `drop(file)` of line 75: `file` is by then the `&mut File` of line 41
\* (file_binding.deref_mut()), which shadows the Arc. Dropping a reference
\* releases nothing: the MutexGuard file_binding lives to the end of the
\* closure and the owner of the lock stays who it was.
OwnerAfterDropFile(owner) == owner

NoWorker == [pc |-> "idle", group |-> 0, idx |-> 0, got |-> <<>>]

MxIdle ==
    /\ mx_threads = 0 /\ mx_duplicates = <<>> /\ mx_pending = {}
    /\ mx_worker = [w \in MxWorkers |-> NoWorker]
    /\ mx_file = [owner |-> 0, poisoned |-> FALSE, pos |-> 0]
    /\ mx_writer = [owner |-> 0, sink |-> <<>>]

\* The pool is built, the file is opened (its cursor at 0) and par_iter is
\* about to hand out the groups.
MxInit ==
    /\ mx_threads \in 1..MaxMxThreads
    /\ mx_duplicates \in UNION {[1..n -> GroupSizes] : n \in 0..MaxMxGroups}
    /\ mx_pending = DOMAIN mx_duplicates
    /\ mx_worker = [w \in MxWorkers |-> NoWorker]
    /\ mx_file = [owner |-> 0, poisoned |-> FALSE, pos |-> 0]
    /\ mx_writer = [owner |-> 0, sink |-> <<>>]

\* What the end of the closure (or the unwinding of a panic) releases: the
\* guards the thread holds, the writer's first.
MxReleaseAll(w, poison) ==
    /\ mx_file' = IF mx_file.owner = w
                    THEN [mx_file EXCEPT !.owner = 0, !.poisoned = @ \/ poison]
                    ELSE mx_file
    /\ mx_writer' = IF mx_writer.owner = w
                      THEN [mx_writer EXCEPT !.owner = 0]
                      ELSE mx_writer

\* A pool thread is handed a group by par_iter; the closure returns at once
\* for a group of one position.
MxTake(w) ==
    /\ w <= mx_threads
    /\ mx_worker[w].pc = "idle"
    /\ \E g \in mx_pending :
         /\ mx_pending' = mx_pending \ {g}
         /\ mx_worker' =
              IF mx_duplicates[g] = 1 THEN mx_worker
              ELSE [mx_worker EXCEPT ![w] =
                      [pc |-> "lock", group |-> g, idx |-> 1, got |-> <<>>]]
    /\ UNCHANGED <<nonMxVars, mx_threads, mx_duplicates, mx_file, mx_writer>>

\* file.lock().unwrap(), line 40: the thread gets the guard when the lock is
\* free; a poisoned lock makes unwrap panic.
MxLockFile(w) ==
    /\ mx_worker[w].pc = "lock"
    /\ LockFree(mx_file)
    /\ IF mx_file.poisoned
         THEN /\ mx_worker' = [mx_worker EXCEPT ![w].pc = "panicked"]
              /\ UNCHANGED mx_file
         ELSE /\ mx_file' = [mx_file EXCEPT !.owner = w]
              /\ mx_worker' = [mx_worker EXCEPT ![w].pc = "seek"]
    /\ UNCHANGED <<nonMxVars, mx_threads, mx_duplicates, mx_pending, mx_writer>>

\* file.seek(SeekFrom::Start(*pos)).expect(..), lines 52-53
MxSeek(w) ==
    /\ mx_worker[w].pc = "seek"
    /\ \E ok \in BOOLEAN :
         IF ok
           THEN /\ mx_file' = [mx_file EXCEPT
                                 !.pos = MxPos(mx_worker[w].group, mx_worker[w].idx)]
                /\ mx_worker' = [mx_worker EXCEPT ![w].pc = "read"]
                /\ UNCHANGED mx_writer
           ELSE /\ mx_worker' = [mx_worker EXCEPT ![w].pc = "panicked"]
                /\ MxReleaseAll(w, TRUE)
    /\ UNCHANGED <<nonMxVars, mx_threads, mx_duplicates, mx_pending>>

\* reader.read(&mut record).unwrap(), lines 55-56: the record at the cursor
\* of the file is read (the reader may read ahead of it; the next seek sets
\* the cursor anew) and added to the graph; the loop goes on or ends.
MxRead(w) ==
    /\ mx_worker[w].pc = "read"
    /\ \E ok \in BOOLEAN :
         IF ok
           THEN /\ mx_file' = [mx_file EXCEPT !.pos = @ + IterRecLen]
                /\ mx_worker' = [mx_worker EXCEPT
                      ![w].got = Append(@, mx_file.pos),
                      ![w].idx = @ + 1,
                      ![w].pc = IF mx_worker[w].idx = mx_duplicates[mx_worker[w].group]
                                  THEN "drop" ELSE "seek"]
                /\ UNCHANGED mx_writer
           ELSE /\ mx_worker' = [mx_worker EXCEPT ![w].pc = "panicked"]
                /\ MxReleaseAll(w, TRUE)
    /\ UNCHANGED <<nonMxVars, mx_threads, mx_duplicates, mx_pending>>

\* drop(file), line 75
MxDropFile(w) ==
    /\ mx_worker[w].pc = "drop"
    /\ mx_file' = [mx_file EXCEPT !.owner = OwnerAfterDropFile(@)]
    /\ mx_worker' = [mx_worker EXCEPT ![w].pc = "consensus"]
    /\ UNCHANGED <<nonMxVars, mx_threads, mx_duplicates, mx_pending, mx_writer>>

\* poa_graph.consensus(), lines 77-80
MxConsensus(w) ==
    /\ mx_worker[w].pc = "consensus"
    /\ mx_worker' = [mx_worker EXCEPT ![w].pc = "wlock"]
    /\ UNCHANGED <<nonMxVars, mx_threads, mx_duplicates, mx_pending, mx_file, mx_writer>>

\* writer.lock().unwrap(), line 83
MxLockWriter(w) ==
    /\ mx_worker[w].pc = "wlock"
    /\ LockFree(mx_writer)
    /\ mx_writer' = [mx_writer EXCEPT !.owner = w]
    /\ mx_worker' = [mx_worker EXCEPT ![w].pc = "head"]
    /\ UNCHANGED <<nonMxVars, mx_threads, mx_duplicates, mx_pending, mx_file>>

\* writeln!, lines 85-92: the header line and the sequence line reach the
\* writer in separate writes. The Result of writeln! is not looked at: after
\* a failed write nothing more of the record is written. After the last
\* write the closure ends and its guards are dropped.
MxWrite(w) ==
    /\ mx_worker[w].pc \in {"head", "seq"}
    /\ \E ok \in BOOLEAN :
         LET piece == <<mx_worker[w].group, mx_worker[w].pc>>
             sink == IF ok THEN Append(mx_writer.sink, piece) ELSE mx_writer.sink
         IN IF ok /\ mx_worker[w].pc = "head"
              THEN /\ mx_writer' = [mx_writer EXCEPT !.sink = sink]
                   /\ mx_worker' = [mx_worker EXCEPT ![w].pc = "seq"]
                   /\ UNCHANGED mx_file
              ELSE /\ mx_writer' = [owner |-> IF mx_writer.owner = w THEN 0
                                              ELSE mx_writer.owner,
                                    sink |-> sink]
                   /\ mx_file' = IF mx_file.owner = w
                                   THEN [mx_file EXCEPT !.owner = 0]
                                   ELSE mx_file
                   /\ mx_worker' = [mx_worker EXCEPT ![w] = NoWorker]
    /\ UNCHANGED <<nonMxVars, mx_threads, mx_duplicates, mx_pending>>

\* ------------------ FastQReadIterator over ByteReader (reader/fastq.rs, bytes.rs)

\* Options { bc: 16, umi: 12 }
BcLen == 16
UmiLen == 12

\* The size of the slices apply_on_slice_until_byte hands to its callback.
ChunkSize == 16

\* The capacities of the BufReader: one that holds every input of the model
\* at once, and one that a line of the input can cross.
FqCaps == {24, 128}

\* The numbers of bases a read of the model has.
FqSeqLens == {0, 5, 20}

Repeat(c, n) == [k \in 1..n |-> c]

\* The text of a record of s bases, up to the end of its quality line.
FqRecordText(s) ==
    <<"@">> \o Repeat("N", BcLen) \o <<"_">> \o Repeat("N", UmiLen) \o <<"#", "\n">>
        \o Repeat("N", s) \o <<"\n", "+", "\n">> \o Repeat("!", s)

\* The text of a file of records of the given numbers of bases, ending with
\* the last quality line.
RECURSIVE FqFileText(_)
FqFileText(lens) ==
    IF Len(lens) = 1 THEN FqRecordText(lens[1])
    ELSE FqFileText(SubSeq(lens, 1, Len(lens) - 1)) \o <<"\n">>
             \o FqRecordText(lens[Len(lens)])

\* The input an iterator reads.
FqVariants == {"plain", "nl"}
FqText(v) == IF v = "nl" THEN Append(fq_input, "\n") ELSE fq_input

\* BufReader::fill_buf: when every fetched byte was consumed, the buffer is
\* filled from the source, which gives as many bytes as it has, up to the
\* capacity. The buffer holds the bytes pos+1..filled of the text.
FillBuf(text, cap, r) ==
    IF r.pos = r.filled
      THEN [r EXCEPT !.filled = IF r.filled + cap <= Len(text)
                                  THEN r.filled + cap ELSE Len(text)]
      ELSE r

\* memchr::memchr(b'\n', available): the offset of the first newline in the
\* buffer, or -1.
Memchr(text, r) ==
    IF \E k \in (r.pos + 1)..r.filled : text[k] = "\n"
      THEN (CHOOSE k \in (r.pos + 1)..r.filled :
                text[k] = "\n" /\ \A j \in (r.pos + 1)..(k - 1) : text[j] # "\n")
           - r.pos - 1
      ELSE -1

\* ByteReader::next_byte: the next byte, or "EOF" for None.
NextByte(text, cap, r) ==
    LET r1 == FillBuf(text, cap, r)
    IN IF r1.pos = r1.filled
         THEN [byte |-> "EOF", r |-> r1]
         ELSE [byte |-> text[r1.pos + 1], r |-> [r1 EXCEPT !.pos = @ + 1]]

\* read_n_to_seq: n times next_byte().expect(..); ok is FALSE when expect
\* panics.
RECURSIVE ReadNToSeq(_, _, _, _)
ReadNToSeq(text, cap, r, n) ==
    IF n = 0 THEN [seq |-> <<>>, r |-> r, ok |-> TRUE]
    ELSE LET head == ReadNToSeq(text, cap, r, n - 1)
             b == NextByte(text, cap, head.r)
         IN IF ~head.ok \/ b.byte = "EOF"
              THEN [seq |-> head.seq, r |-> b.r, ok |-> FALSE]
              ELSE [seq |-> Append(head.seq, b.byte), r |-> b.r, ok |-> TRUE]

\* ByteReader::read_line: the bytes up to and with the next newline, or up to
\* the end of the input.
RECURSIVE ReadLine(_, _, _)
ReadLine(text, cap, r) ==
    LET r1 == FillBuf(text, cap, r)
        i == Memchr(text, r1)
    IN IF r1.pos = r1.filled THEN [line |-> <<>>, r |-> r1]
       ELSE IF i # -1
         THEN [line |-> SubSeq(text, r1.pos + 1, r1.pos + i + 1),
               r |-> [r1 EXCEPT !.pos = @ + i + 1]]
         ELSE LET rest == ReadLine(text, cap, [r1 EXCEPT !.pos = r1.filled])
              IN [line |-> SubSeq(text, r1.pos + 1, r1.filled) \o rest.line,
                  r |-> rest.r]

\* The slices of one turn of the loop: `chunks` slices of ChunkSize bytes from
\* offset start on, then one of `remainder` bytes if that is not 0.
SlicesOf(start, chunks, remainder) ==
    [idx \in 1..chunks |-> <<start + (idx - 1) * ChunkSize, ChunkSize>>]
        \o (IF remainder # 0 THEN <<<<start + chunks * ChunkSize, remainder>>>> ELSE <<>>)

\* ByteReader::apply_on_slice_until_byte(b'\n', f), from a turn of its loop
\* on: slices are the slices f was given so far, read the bytes consumed.
RECURSIVE ApplyOnSliceUntilByte(_, _, _, _, _)
ApplyOnSliceUntilByte(text, cap, r, slices, read) ==
    LET r1 == FillBuf(text, cap, r)
        i == Memchr(text, r1)
        length == IF i # -1 THEN i ELSE r1.filled - r1.pos
        chunks == length \div ChunkSize
    IN IF i # -1
         THEN \* (true, i + 1): return Some(read)
              [ret |-> read + i + 1,
               slices |-> slices \o SlicesOf(r1.pos, chunks, length - chunks * ChunkSize),
               r |-> [r1 EXCEPT !.pos = @ + i + 1]]
         ELSE IF chunks * ChunkSize = 0
           THEN \* (false, 0): used == 0, return None
                [ret |-> -1, slices |-> slices, r |-> r1]
           ELSE ApplyOnSliceUntilByte(text, cap,
                                      [r1 EXCEPT !.pos = @ + chunks * ChunkSize],
                                      slices \o SlicesOf(r1.pos, chunks, 0),
                                      read + chunks * ChunkSize)

\* The bytes the callback was given, one slice after the other.
RECURSIVE SliceBytes(_, _)
SliceBytes(text, slices) ==
    IF slices = <<>> THEN <<>>
    ELSE SubSeq(text, slices[1][1] + 1, slices[1][1] + slices[1][2])
             \o SliceBytes(text, Tail(slices))

\* What a call of next returns.
FqNone == <<"None">>
FqPanic == <<"panic">>
FqSome(bc, umi, metadata, seq, qual) == <<"Some", bc, umi, metadata, seq, qual>>

\* FastQReadIterator::next on the reader r: the value returned (or the
\* panic), the reader afterwards and the new value of self.eof.
FqNextFrom(text, cap, r) ==
    LET first == NextByte(text, cap, r)
        bc == ReadNToSeq(text, cap, first.r, BcLen)
        sep == NextByte(text, cap, bc.r)
        umi == ReadNToSeq(text, cap, sep.r, UmiLen)
        metadata == ReadLine(text, cap, umi.r)
        seq == ApplyOnSliceUntilByte(text, cap, metadata.r, <<>>, 0)
        plus == NextByte(text, cap, seq.r)
        skipped == ApplyOnSliceUntilByte(text, cap, plus.r, <<>>, 0)
        qual == ReadLine(text, cap, skipped.r)
        qualEof == qual.line[Len(qual.line)] # "\n"
    IN IF first.byte \in {"\n", "EOF"}
         THEN [ret |-> FqNone, r |-> first.r, eof |-> TRUE]
       ELSE IF first.byte # "@"
         THEN [ret |-> FqPanic, r |-> first.r, eof |-> FALSE]
       ELSE IF ~bc.ok
         THEN [ret |-> FqPanic, r |-> bc.r, eof |-> FALSE]
       ELSE IF sep.byte # "_"
         THEN [ret |-> FqPanic, r |-> sep.r, eof |-> FALSE]
       ELSE IF ~umi.ok
         THEN [ret |-> FqPanic, r |-> umi.r, eof |-> FALSE]
       ELSE IF metadata.line = <<>> \/ metadata.line[Len(metadata.line)] # "\n"
         THEN \* "Did not expect early EOF", "Metadata should not contain EOF"
              [ret |-> FqPanic, r |-> metadata.r, eof |-> FALSE]
       ELSE IF plus.byte # "+"
         THEN \* "Wrong character: not + starting read"
              [ret |-> FqPanic, r |-> plus.r, eof |-> FALSE]
       ELSE IF qual.line = <<>>
         THEN \* read_line_trim_newline: Ok(0) => "Did not expect early EOF"
              [ret |-> FqPanic, r |-> qual.r, eof |-> FALSE]
       ELSE [ret |-> FqSome(bc.seq, umi.seq,
                            SubSeq(metadata.line, 1, Len(metadata.line) - 1),
                            SliceBytes(text, seq.slices),
                            IF qualEof THEN qual.line
                            ELSE SubSeq(qual.line, 1, Len(qual.line) - 1)),
             r |-> qual.r, eof |-> qualEof]

NoReader == [pos |-> 0, filled |-> 0]
NoIter == [r |-> NoReader, eof |-> FALSE, calls |-> <<>>, panicked |-> FALSE]
NoApply == [done |-> FALSE, slices |-> <<>>, ret |-> 0, r |-> NoReader]

FqIdle ==
    /\ fq_input = <<>> /\ fq_cap = 0
    /\ fq_it = [v \in FqVariants |-> NoIter]
    /\ fq_apply = NoApply

\* FastQReadIterator::new and ByteReader::new over a file of one or more
\* records: nothing was read yet.
FqInit ==
    /\ fq_input \in {FqFileText(lens) :
                        lens \in UNION {[1..n -> FqSeqLens] : n \in 1..MaxFqRecords}}
    /\ fq_cap \in FqCaps
    /\ fq_it = [v \in FqVariants |-> NoIter]
    /\ fq_apply = NoApply

\* One call of next on the iterator over the input v.
FqNext(v) ==
    /\ fq_input # <<>>
    /\ ~fq_it[v].panicked
    /\ Len(fq_it[v].calls) < MaxFqCalls
    /\ IF fq_it[v].eof
         THEN \* if self.eof { return None; }
              fq_it' = [fq_it EXCEPT ![v].calls = Append(@, FqNone)]
         ELSE LET res == FqNextFrom(FqText(v), fq_cap, fq_it[v].r)
              IN fq_it' = [fq_it EXCEPT
                             ![v] = [r |-> res.r, eof |-> res.eof,
                                     calls |-> Append(fq_it[v].calls, res.ret),
                                     panicked |-> res.ret = FqPanic]]
    /\ UNCHANGED <<nonFqVars, fq_input, fq_cap, fq_apply>>

\* A call of apply_on_slice_until_byte(b'\n', f) on a new ByteReader over
\* the input.
FqApply ==
    /\ fq_input # <<>>
    /\ ~fq_apply.done
    /\ LET res == ApplyOnSliceUntilByte(fq_input, fq_cap, NoReader, <<>>, 0)
       IN fq_apply' = [done |-> TRUE, slices |-> res.slices, ret |-> res.ret,
                       r |-> res.r]
    /\ UNCHANGED <<nonFqVars, fq_input, fq_cap, fq_it>>

ParIdle ==
    /\ threads = 0 /\ cache_size = 0 /\ input = <<>> /\ pool = 0
    /\ pm_pc = "idle" /\ result = "none" /\ pulled = 0
    /\ wpc = [w \in Workers |-> "idle"]
    /\ witem = [w \in Workers |-> None]
    /\ approved = 0 /\ chan = <<>> /\ cpc = "recv" /\ buffer = <<>>
    /\ min_idx = 0 /\ loop_v = 0 /\ loop_end = 0 /\ out = <<>>

Init == ParInit /\ CallIdle /\ DupIdle /\ IterIdle /\ IdIdle /\ MetaIdle /\ QualIdle /\ GenIdle /\ MxIdle /\ FqIdle

Next ==
    \/ ParCall
    \/ SeqStep
    \/ SeqDone
    \/ \E w \in Workers : WorkerPull(w)
    \/ \E w \in Workers : WorkerExit(w)
    \/ \E w \in Workers : WorkerApproved(w)
    \/ \E w \in Workers : WorkerSend(w)
    \/ ConsumerRecv
    \/ ConsumerEmit
    \/ ConsumerPublish
    \/ ConsumerClose

Spec == Init /\ [][Next]_vars

CallNext ==
    \/ CallStart
    \/ PumpPull
    \/ PumpEnd
    \/ \E w \in CallWorkers : CallWorkerTake(w)
    \/ \E w \in CallWorkers : CallWorkerCompute(w)
    \/ Yield
    \/ PipeEnd
    \/ GroupStep

CallSpecInit == ParIdle /\ CallInit /\ DupIdle /\ IterIdle /\ IdIdle /\ MetaIdle /\ QualIdle /\ GenIdle /\ MxIdle /\ FqIdle

CallSpec == CallSpecInit /\ [][CallNext]_vars

\* Every pool thread is an OS thread that keeps being scheduled: a step that
\* stays possible is eventually taken.
FairSpec ==
    /\ Spec
    /\ WF_vars(ParCall) /\ WF_vars(SeqStep) /\ WF_vars(SeqDone)
    /\ \A w \in Workers :
         /\ WF_vars(WorkerPull(w)) /\ WF_vars(WorkerExit(w))
         /\ WF_vars(WorkerApproved(w)) /\ WF_vars(WorkerSend(w))
    /\ WF_vars(ConsumerRecv) /\ WF_vars(ConsumerEmit)
    /\ WF_vars(ConsumerPublish) /\ WF_vars(ConsumerClose)

DupNext ==
    \/ DupOpen
    \/ DupReadRow
    \/ DupBadRow
    \/ DupFinish

DupSpecInit == ParIdle /\ CallIdle /\ DupInit /\ IterIdle /\ IdIdle /\ MetaIdle /\ QualIdle /\ GenIdle /\ MxIdle /\ FqIdle

DupSpec == DupSpecInit /\ [][DupNext]_vars

IterNext == IterNextCall

IterSpecInit == ParIdle /\ CallIdle /\ DupIdle /\ IterInit /\ IdIdle /\ MetaIdle /\ QualIdle /\ GenIdle /\ MxIdle /\ FqIdle

IterSpec == IterSpecInit /\ [][IterNext]_vars

IdNext ==
    \/ IdFromString
    \/ IdToString

IdSpecInit == ParIdle /\ CallIdle /\ DupIdle /\ IterIdle /\ IdInit /\ MetaIdle /\ QualIdle /\ GenIdle /\ MxIdle /\ FqIdle

IdSpec == IdSpecInit /\ [][IdNext]_vars

MetaNext == AddMetadata

MetaSpecInit == ParIdle /\ CallIdle /\ DupIdle /\ IterIdle /\ IdIdle /\ MetaInit /\ QualIdle /\ GenIdle /\ MxIdle /\ FqIdle

MetaSpec == MetaSpecInit /\ [][MetaNext]_vars

QualNext == AvgQual

QualSpecInit ==
    /\ ParIdle /\ CallIdle /\ DupIdle /\ IterIdle /\ IdIdle /\ MetaIdle /\ QualInit
    /\ GenIdle /\ MxIdle /\ FqIdle

QualSpec == QualSpecInit /\ [][QualNext]_vars

GenNext ==
    \/ GenRead
    \/ GenFinish
    \/ GenFinishWrite
    \/ GenNextRecord

GenSpecInit ==
    /\ ParIdle /\ CallIdle /\ DupIdle /\ IterIdle /\ IdIdle /\ MetaIdle /\ QualIdle
    /\ GenInit /\ MxIdle /\ FqIdle

GenSpec == GenSpecInit /\ [][GenNext]_vars

MxNext ==
    \/ \E w \in MxWorkers : MxTake(w)
    \/ \E w \in MxWorkers : MxLockFile(w)
    \/ \E w \in MxWorkers : MxSeek(w)
    \/ \E w \in MxWorkers : MxRead(w)
    \/ \E w \in MxWorkers : MxDropFile(w)
    \/ \E w \in MxWorkers : MxConsensus(w)
    \/ \E w \in MxWorkers : MxLockWriter(w)
    \/ \E w \in MxWorkers : MxWrite(w)

MxSpecInit ==
    /\ ParIdle /\ CallIdle /\ DupIdle /\ IterIdle /\ IdIdle /\ MetaIdle /\ QualIdle
    /\ GenIdle /\ MxInit /\ FqIdle

MxSpec == MxSpecInit /\ [][MxNext]_vars

FqNextStep ==
    \/ \E v \in FqVariants : FqNext(v)
    \/ FqApply

FqSpecInit ==
    /\ ParIdle /\ CallIdle /\ DupIdle /\ IterIdle /\ IdIdle /\ MetaIdle /\ QualIdle
    /\ GenIdle /\ MxIdle /\ FqInit

FqSpec == FqSpecInit /\ [][FqNextStep]_vars

\* ------------------------------------------------------------------ claims

IsPrefix(s, t) == Len(s) <= Len(t) /\ \A k \in 1..Len(s) : s[k] = t[k]

ValidConfig == threads >= 1 /\ cache_size >= threads

\* C1: for T >= 1 and C >= T, emit is called on map(x0), map(x1), ... in exactly
\* that order: at every moment the emitted values are a prefix of the mapped input.
C1_EmitInOrder == ValidConfig => IsPrefix(out, MapAll(input))

\* A result with a higher index sits in the reorder buffer while the next one to
\* emit has not arrived, after something was emitted.
C1_Witness ==
    /\ threads >= 2 /\ cache_size >= threads /\ pm_pc = "par"
    /\ Len(out) >= 1
    /\ buffer[Slot(min_idx, cache_size) + 1] = None
    /\ \E k \in 1..cache_size : buffer[k] # None /\ buffer[k][1] > min_idx

\* C2: in a valid configuration the call never panics, and when it returns it
\* returns Ok with every item mapped and emitted exactly once, in input order:
\* the parallel path's output is the sequential path's output.
C2_SameAsSequential ==
    ValidConfig =>
        /\ pm_pc # "panicked"
        /\ pm_pc = "returned" => result = "Ok" /\ out = MapAll(input)

C2_Witness ==
    /\ threads >= 2 /\ cache_size >= threads
    /\ pm_pc = "returned" /\ result = "Ok" /\ Len(out) >= 3

\* C3: with C >= T >= 2 and fair scheduling the call terminates with every item
\* emitted (so no state is a deadlock of workers and consumer).
C3_Terminates ==
    (threads >= 2 /\ cache_size >= threads)
        => <>(pm_pc = "returned" /\ result = "Ok" /\ out = MapAll(input))

\* C + 1 items; a worker spins on an index that is not approved while the
\* consumer waits on the empty channel for the slow lower index.
C3_Witness ==
    /\ threads >= 2 /\ cache_size >= threads
    /\ Len(input) = cache_size + 1
    /\ pm_pc = "par" /\ cpc = "recv" /\ chan = <<>>
    /\ \E w \in Workers : wpc[w] = "spin" /\ witem[w][1] > approved

\* C4: the slot assertion never fails: a message about to be received finds its
\* slot empty, and every buffered result has an index in
\* [min_idx, min_idx + C) and sits in slot index mod C.
C4_SlotAssertion ==
    /\ result # "assertion failed: buffer[i % cache_size].is_none()"
    /\ (pm_pc = "par" /\ cache_size > 0) =>
        /\ (cpc = "recv" /\ chan # <<>>) =>
               buffer[(Head(chan)[1] % cache_size) + 1] = None
        /\ \A k \in 1..cache_size :
               buffer[k] # None =>
                   /\ min_idx <= buffer[k][1]
                   /\ buffer[k][1] < min_idx + cache_size
                   /\ (buffer[k][1] % cache_size) + 1 = k

\* A result whose index wrapped around the ring is stored.
C4_Witness ==
    /\ threads >= 2 /\ cache_size >= threads /\ pm_pc = "par"
    /\ \E k \in 1..cache_size : buffer[k] # None /\ buffer[k][1] >= cache_size

\* C5: with cache_size < threads the call returns the cache-too-small error
\* at once: nothing is pulled from the iterator, mapped or emitted.
C5_CacheTooSmallRejected ==
    cache_size < threads =>
        /\ pulled = 0 /\ out = <<>>
        /\ \A w \in Workers : wpc[w] = "idle"
        /\ pm_pc \in {"call", "returned"}
        /\ pm_pc = "returned" => result = "CacheTooSmallError"

C5_Witness ==
    /\ cache_size < threads /\ Len(input) > 0
    /\ pm_pc = "returned" /\ result = "CacheTooSmallError"

\* C6: a thread count of 0 is rejected before any item is read, mapped or
\* emitted (the claim as stated; the code has no such check).
C6_ZeroThreadsRejected ==
    threads = 0 =>
        /\ pulled = 0 /\ out = <<>>
        /\ pm_pc \in {"call", "returned", "panicked"}
        /\ pm_pc = "returned" => result # "Ok"

MinOf(S) == CHOOSE x \in S : \A y \in S : x <= y

\* The groups whose reading or computing has failed so far.
CallErrs ==
    IF c_fn = "custom_command"
      THEN {k \in Groups : c_results[k] \in {"read_err", "cmd_err"}}
      ELSE {k \in Groups : c_read[k] = "err"}

FirstCallErr ==
    LET k == MinOf(CallErrs)
    IN <<"Err", IF c_fn = "custom_command" THEN c_results[k] ELSE "read_err", k>>

\* C7: in custom_command, once the computation of some group has returned an
\* error, no further group is pulled from the group iterator (the claim as
\* stated).
C7_NoPullAfterComputeError ==
    [][(c_fn = "custom_command"
          /\ \E k \in Groups : c_results[k] \in {"read_err", "cmd_err"})
        => c_src' = c_src]_vars

C9_SinkFailureReturned ==
    (c_fn \in {"consensus", "custom_command"} /\ c_wfail # -1) =>
        c_pc = "returned" /\ c_result[1] = "Err"

\* How often position p occurs in the position lists of by_id.
Occurrences(p) ==
    Cardinality(UNION {{<<g, j>> : j \in {i \in 1..Len(d_by_id[g].positions) :
                                               d_by_id[g].positions[i].pos = p}} :
                       g \in 1..Len(d_by_id)})

\* C10: after get_duplicates the position of every row with ignored = false is
\* in exactly one group, exactly once (with the row's rec_len as its length),
\* the position of no ignored row is in any group, and the groups hold nothing
\* else.
C10_GroupsPartitionRows ==
    d_pc = "done" =>
        /\ \A r \in 1..Len(d_rows) :
              Occurrences(d_rows[r].pos) = IF d_rows[r].ignored THEN 0 ELSE 1
        /\ \A g \in 1..Len(d_by_id) : \A j \in 1..Len(d_by_id[g].positions) :
              \E r \in 1..Len(d_rows) :
                  /\ ~d_rows[r].ignored
                  /\ d_rows[r].pos = d_by_id[g].positions[j].pos
                  /\ d_rows[r].rec_len = d_by_id[g].positions[j].length

\* Three rows of one id, the middle one ignored: a group of two.
C10_Witness ==
    /\ d_pc = "done" /\ Len(d_rows) = 3
    /\ d_rows[1].id = d_rows[2].id /\ d_rows[2].id = d_rows[3].id
    /\ ~d_rows[1].ignored /\ d_rows[2].ignored /\ ~d_rows[3].ignored
    /\ Len(d_by_id) = 1 /\ Len(d_by_id[1].positions) = 2

\* The groups of the DuplicateMap the iterator is to yield, in the order of
\* by_id (the order in which the first member of each was inserted).
ExpectedGroups ==
    LET Wanted(e) == ~(i_dup_only /\ Len(e.positions) = 1)
        sel == SelectSeq(i_duplicates.by_id, Wanted)
    IN [k \in 1..Len(sel) |->
          [id |-> sel[k].id,
           records |-> [j \in 1..Len(sel[k].positions) |-> sel[k].positions[j].pos]]]

\* The identifier and the member positions of the groups yielded so far.
YieldedGroups ==
    [k \in 1..Len(i_yielded) |->
        [id |-> i_yielded[k].id, records |-> i_yielded[k].records]]

\* C11: the k-th group the iterator yields (k from 0) has index k, whatever
\* duplicates_only is: skipped singletons and ignored rows consume no index.
C11_IndexIsOrdinal ==
    \A k \in 1..Len(i_yielded) : i_yielded[k].index = k - 1

\* Only duplicates are wanted and two groups were yielded with a singleton
\* that is not ignored lying between their first members.
C11_Witness ==
    /\ i_dup_only
    /\ Len(i_yielded) = 2
    /\ \E r \in 1..Len(i_rows) :
         /\ ~i_rows[r].ignored
         /\ Len(RecordsByPos(i_duplicates, i_rows[r].pos)) = 1
         /\ i_yielded[1].records[1] < i_rows[r].pos
         /\ i_rows[r].pos < i_yielded[2].records[1]

C13_FailedIsTerminal ==
    [][i_failed => i_yielded' = i_yielded]_vars

\* The ceiling on the total record span of a group, in bytes.
SpanCeiling == 5

\* The total record span of the k-th yielded group.
GroupSpan(k) ==
    SumSeq([j \in 1..Len(i_yielded[k].records) |->
        (CHOOSE r \in {i_rows[x] : x \in 1..Len(i_rows)} :
            r.pos = i_yielded[k].records[j]).rec_len])

\* C14: every yielded group whose total record span exceeds the ceiling
\* carries ignore = true.
C14_OversizeGroupsIgnored ==
    \A k \in 1..Len(i_yielded) : GroupSpan(k) > SpanCeiling => i_yielded[k].ignore

\* The places of the sink's content that hold a record of group k.
PlacesOf(k) == {p \in 1..Len(c_out) : c_out[p].g = k}

\* C15: a group of exactly one record is never handed to the alignment
\* engine, and what consensus writes for it is one record, tagged as a
\* singleton, whose sequence is the sequence of the group's record.
C15_SingletonUnchanged ==
    c_fn = "consensus" =>
        \A k \in Groups :
            (c_size[k] = 1 /\ c_results[k] # "none") =>
                /\ k \notin c_aligned
                /\ \A p \in PlacesOf(k) :
                      c_out[p] = [g |-> k, tag |-> <<"SIN">>, seq |-> MemberSeq(k, 1)]
                /\ Cardinality(PlacesOf(k)) =
                      Cardinality({j \in 1..Len(c_written) : c_written[j] = k})

\* consensus has written a singleton group after a group that was aligned.
C15_Witness ==
    /\ c_fn = "consensus"
    /\ \E k \in Groups :
          /\ c_size[k] = 1
          /\ PlacesOf(k) # {}
          /\ \E a \in c_aligned : a < k /\ PlacesOf(a) # {}

\* C16: with output_originals set, every consensus record in the sink comes
\* right after the n records of the members of its group, numbered 1..n of n
\* in this order, and the records of a group lie next to each other.
C16_OriginalsContiguous ==
    (c_fn = "consensus" /\ c_orig) =>
        /\ \A p \in 1..Len(c_out) :
              c_out[p].tag[1] = "CON" =>
                 LET n == c_out[p].tag[2]
                     k == c_out[p].g
                 IN /\ n = c_size[k]
                    /\ p > n
                    /\ \A j \in 1..n :
                          c_out[p - n + j - 1] =
                             [g |-> k, tag |-> <<"DUP", j, n>>, seq |-> MemberSeq(k, j)]
        /\ \A k \in Groups :
              \A p \in PlacesOf(k), q \in PlacesOf(k) :
                  \A r \in p..q : r \in PlacesOf(k)

\* Originals are reported by two threads, the block of a group of two is in
\* the sink, and of the groups in flight a later one was finished before an
\* earlier one.
C16_Witness ==
    /\ c_fn = "consensus" /\ c_orig /\ c_threads = 2
    /\ \E p \in 1..Len(c_out) : c_out[p].tag = <<"CON", 2>>
    /\ \E k \in Groups :
          /\ c_next_rx <= k /\ k + 1 < c_next_tx
          /\ c_results[k] = "none" /\ c_results[k + 1] # "none"

\* C17: the tags add_metadata appends determine the read type, the group
\* ordinal and the member count of the call: no call with another read type,
\* ordinal or member count appends the same tags.
C17_TagsRoundTrip ==
    m_pc = "done" =>
        \A b \in MetaArgs :
            m_id = <<"read">> \o MetadataTags(b) =>
                /\ b.read_type = m_args.read_type
                /\ b.umi_group = m_args.umi_group
                /\ b.group_size = m_args.group_size

\* C18: from_string splits the id at its first '_' into the part before it
\* and the part after it, and an id without '_' gives the whole string as
\* head and an empty tail.
C18_SplitAtFirstUnderscore ==
    f_pc # "start" =>
        /\ f_pc # "panicked"
        /\ FindUnderscore(f_s) # -1 =>
              /\ f_ident.head = SubSeq(f_s, 1, FindUnderscore(f_s))
              /\ f_ident.tail = SubSeq(f_s, FindUnderscore(f_s) + 2, Len(f_s))
        /\ FindUnderscore(f_s) = -1 =>
              /\ f_ident.head = f_s
              /\ f_ident.tail = <<>>

\* C19: from_string(s).to_string() is s, for every id string s.
C19_ToStringInvertsFromString ==
    /\ f_pc # "panicked"
    /\ f_pc = "printed" => f_str = f_s

\* C20: an index whose header line does not start with '#' or is not the
\* metadata JSON, or one of whose rows does not deserialize, makes the read
\* of the index return an error: it neither panics nor returns statistics.
C20_MalformedIndexIsError ==
    (d_header \in {"no_hash", "bad_json"} \/ d_bad_row) =>
        /\ d_pc = "error"
        /\ d_stats = NoStats

\* The number of groups of the map with exactly k members.
GroupsOfSize(k) ==
    Cardinality({g \in 1..Len(d_by_id) : Len(d_by_id[g].positions) = k})

\* distribution[k], an absent key counting as 0.
Distribution(k) ==
    IF k \in DOMAIN d_stats.distribution THEN d_stats.distribution[k] ELSE 0

\* C21: the statistics get_duplicates returns: total_reads is the number of
\* rows that are not ignored, duplicate_ids the number of groups of more than
\* one member, duplicate_reads the sum of their sizes, distribution[k] the
\* number of groups of exactly k members, and the sum of k * distribution[k]
\* is total_reads.
C21_StatisticsMatchGroups ==
    d_pc = "done" =>
        /\ d_stats.total_reads =
              Cardinality({r \in 1..Len(d_rows) : ~d_rows[r].ignored})
        /\ d_stats.duplicate_ids =
              Cardinality({g \in 1..Len(d_by_id) : Len(d_by_id[g].positions) > 1})
        /\ d_stats.duplicate_reads =
              SumSeq([g \in 1..Len(d_by_id) |->
                        IF Len(d_by_id[g].positions) > 1
                          THEN Len(d_by_id[g].positions) ELSE 0])
        /\ \A k \in 1..(Len(d_rows) + 1) : Distribution(k) = GroupsOfSize(k)
        /\ DOMAIN d_stats.distribution \subseteq 1..(Len(d_rows) + 1)
        /\ SumSeq([k \in 1..(Len(d_rows) + 1) |-> k * Distribution(k)]) =
              d_stats.total_reads

\* The statistics of an index with a group of two, a singleton or an ignored
\* row beside it.
C21_Witness ==
    /\ d_pc = "done"
    /\ Len(d_rows) = 3
    /\ d_stats.duplicate_ids = 1
    /\ d_stats.total_reads < 3 \/ Distribution(1) = 1

\* C23: the stdin of the process custom_command launches for a group is the
\* FASTQ text of the records of that group.
C23_CommandGetsGroupFastq ==
    c_fn = "custom_command" =>
        \A k \in Groups :
            c_results[k] \in {"ok", "cmd_err"} => c_stdin[k] = FastqStr(k)

\* C25: while the consumer waits for the next message, a worker that holds
\* the result of index i is kept in its spin loop only if the reorder window
\* is full for it, that is only if i >= min_idx + cache_size.
C25_WaitOnlyWhenWindowFull ==
    (ValidConfig /\ pm_pc = "par" /\ cpc = "recv") =>
        \A w \in ActiveWorkers :
            (wpc[w] = "spin" /\ approved < witem[w][1]) =>
                witem[w][1] >= min_idx + cache_size

\* C26: the approval counter never decreases during a run of
\* par_map_and_emit.
C26_ApprovalNeverDecreases ==
    [][(ValidConfig /\ pm_pc = "par") => approved' >= approved]_vars

\* C27: a step that calls emit is a step of one thread: of the calling
\* thread on the sequential path, of the consumer in its drain loop on the
\* parallel path, and no worker moves in it.
C27_EmitBySingleThread ==
    [][out' # out =>
        /\ Len(out') = Len(out) + 1
        /\ wpc' = wpc /\ witem' = witem
        /\ \/ pm_pc = "seq"
           \/ pm_pc = "par" /\ cpc = "drain"]_vars

\* On the parallel path a value has been emitted while a worker holds a
\* computed result.
C27_Witness ==
    /\ pm_pc = "par" /\ threads >= 2
    /\ out # <<>>
    /\ \E w \in ActiveWorkers : wpc[w] \in {"spin", "send"}

\* C28: the random fetches of group members leave the sequential cursor
\* where it was: the handle behind seq_parser always stands right after the
\* last record next_record returned, so the next record it returns is the
\* one of the next index row.
C28_FetchLeavesSequentialCursor ==
    /\ i_seq_off =
          IF i_cursor = 0 THEN 0
          ELSE i_rows[i_cursor].pos + i_rows[i_cursor].rec_len
    /\ \A k \in 1..Len(i_yielded) :
          \E r \in 1..Len(i_rows) :
              /\ i_rows[r].pos = i_yielded[k].records[1]
              /\ ~i_rows[r].ignored

\* A group of two or more was yielded, its members fetched at random, and a
\* later call took further records from the sequential parser and yielded a
\* second group.
C28_Witness ==
    /\ Len(i_yielded) = 2
    /\ Len(i_yielded[1].records) >= 2
    /\ i_rnd_off > i_yielded[2].records[1]
    /\ ~i_failed

\* The group of by_id that holds the record at pos, or 0.
GroupOfPos(pos) ==
    IF \E g \in 1..Len(d_by_id) :
           \E j \in 1..Len(d_by_id[g].positions) : d_by_id[g].positions[j].pos = pos
      THEN CHOOSE g \in 1..Len(d_by_id) :
               \E j \in 1..Len(d_by_id[g].positions) : d_by_id[g].positions[j].pos = pos
      ELSE 0

\* C30: two rows that are not ignored, once inserted, are in the same
\* duplicate group if and only if their id strings are equal.
C30_SameGroupIffSameId ==
    \A r1, r2 \in 1..Len(d_rows) :
        (/\ ~d_rows[r1].ignored /\ ~d_rows[r2].ignored
         /\ GroupOfPos(d_rows[r1].pos) # 0 /\ GroupOfPos(d_rows[r2].pos) # 0)
        => ((GroupOfPos(d_rows[r1].pos) = GroupOfPos(d_rows[r2].pos))
              <=> (d_rows[r1].id = d_rows[r2].id))

\* C29: the avg_qual of a group is the sum of the PHRED scores of all bases
\* of all its members divided by the total number of their bases.
C29_AvgQualIsPerBaseMean ==
    q_pc = "done" =>
        q_avg_qual[1] * GroupAvgQualPerBase(q_records)[2]
            = GroupAvgQualPerBase(q_records)[1] * q_avg_qual[2]

\* A value lies in the interval 'a,b' with both ends included.
ContainsInclusive(interval, v) == interval.min <= v /\ v <= interval.max

\* C22: a read whose length and average quality lie in the intervals of --len
\* and --qual, ends included, is written as not ignored.
C22_IntervalsInclusive ==
    \A k \in 1..Len(g_rows) :
        (/\ ContainsInclusive(g_opts.len, g_rows[k].n_bases)
         /\ ContainsInclusive(g_opts.quality, g_rows[k].avg_qual))
        => ~g_rows[k].ignored

\* C24: when index generation that skips unmatched reads finishes, read_count
\* is matched + unmatched, the rows written are the matched reads, and
\* filtered_reads counts the written rows that are marked ignored.
C24_EveryReadAccounted ==
    (g_pc = "done" /\ g_skip) =>
        /\ g_meta.read_count = g_meta.matched_read_count + g_meta.unmatched_read_count
        /\ Len(g_rows) = g_meta.matched_read_count
        /\ g_meta.filtered_reads = Cardinality({k \in 1..Len(g_rows) : g_rows[k].ignored})

\* C31: every index row next_record returns together with a record of the
\* file describes that record: the row's pos is the record's byte offset.
C31_RowDescribesItsRecord ==
    \A k \in 1..Len(g_paired) : g_paired[k].idx.pos = g_paired[k].rec_pos

\* The groups whose read or computation failed.
FailedGroups ==
    {k \in Groups : c_read[k] = "err" \/ c_results[k] \in {"read_err", "cmd_err"}}

\* The complete outputs of groups 0..k-1, one after the other.
RECURSIVE OutputsBefore(_)
OutputsBefore(k) == IF k = 0 THEN <<>> ELSE OutputsBefore(k - 1) \o c_output[k - 1]

\* C32: when a run has returned and the read or the computation of a group
\* failed, k being the first such group, the sink holds the complete outputs
\* of groups 0..k-1 in order and nothing else.
C32_SinkHoldsGroupsBeforeError ==
    (c_pc = "returned" /\ FailedGroups # {}) =>
        LET k == CHOOSE x \in FailedGroups : \A y \in FailedGroups : x <= y
        IN /\ c_written = [j \in 1..k |-> j - 1]
           /\ c_wfail = -1
           /\ c_fn # "group" => c_out = OutputsBefore(k)

\* A run on two threads has returned the error of a group after writing
\* the groups before it, while a later group was already computed.
C32_Witness ==
    /\ c_pc = "returned" /\ c_threads = 2
    /\ \E k \in FailedGroups :
         /\ k >= 1
         /\ c_written # <<>>
         /\ \E j \in Groups : j > k /\ c_results[j] = "ok"

\* C33: a worker of the mutex-based consensus that has read the records of
\* its group no longer holds the lock on the input file while it computes the
\* consensus, waits for the writer lock or writes.
C33_FileLockFreedAfterReading ==
    \A w \in MxWorkers :
        mx_worker[w].pc \in {"consensus", "wlock", "head", "seq"} => mx_file.owner # w

\* C34: every record a worker of the mutex-based consensus has read is the
\* record at the position it sought, and the pieces a group has written to
\* the sink lie together, with no piece of another group between them.
C34_SeekReadAndRecordAtomic ==
    /\ \A w \in MxWorkers :
          \A j \in 1..Len(mx_worker[w].got) :
              mx_worker[w].got[j] = MxPos(mx_worker[w].group, j)
    /\ \A i, j, k \in 1..Len(mx_writer.sink) :
          (i < j /\ j < k /\ mx_writer.sink[i][1] = mx_writer.sink[k][1])
          => mx_writer.sink[j][1] = mx_writer.sink[i][1]

\* Two threads work on a group each: one has read its two records and
\* written the header of its output, the other waits for the lock on the file.
C34_Witness ==
    /\ mx_threads = 2
    /\ \E w1, w2 \in MxWorkers :
         /\ mx_worker[w1].pc = "seq" /\ Len(mx_worker[w1].got) = 2
         /\ mx_writer.sink # <<>>
         /\ mx_worker[w2].pc = "lock"

\* The records an iterator has yielded, in order.
FqRecords(v) == SelectSeq(fq_it[v].calls, LAMBDA c : c[1] = "Some")

\* C35: once both iterators have come to their end, the one over the input
\* with a newline after its last quality line has yielded the same records
\* as the one over the input without it; and after a call of next has
\* returned None every later call has returned None.
C35_TrailingNewlineAndNoneSticky ==
    /\ (\A v \in FqVariants : fq_it[v].eof \/ fq_it[v].panicked)
          => FqRecords("plain") = FqRecords("nl")
    /\ \A v \in FqVariants :
          \A i, j \in 1..Len(fq_it[v].calls) :
              (i < j /\ fq_it[v].calls[i] = FqNone) => fq_it[v].calls[j] = FqNone

\* The number of bytes of the input up to and with its first newline.
FirstLineLen ==
    CHOOSE k \in 1..Len(fq_input) :
        fq_input[k] = "\n" /\ \A j \in 1..(k - 1) : fq_input[j] # "\n"

\* C36: a call of apply_on_slice_until_byte on an input that holds a newline
\* returns the number of bytes up to and with it, leaves the reader right
\* after it, and has given the callback the bytes before it, each once and in
\* order, in slices of at most 16 bytes.
C36_EveryByteBeforeDelimiterOnce ==
    fq_apply.done =>
        /\ fq_apply.ret = FirstLineLen
        /\ fq_apply.r.pos = FirstLineLen
        /\ \A k \in 1..Len(fq_apply.slices) :
              /\ fq_apply.slices[k][2] >= 1 /\ fq_apply.slices[k][2] <= ChunkSize
              /\ fq_apply.slices[k][1] =
                    IF k = 1 THEN 0
                    ELSE fq_apply.slices[k - 1][1] + fq_apply.slices[k - 1][2]
        /\ Len(SliceBytes(fq_input, fq_apply.slices)) = FirstLineLen - 1

\* C37: a run of index generation that fails before finish_write is reached
\* (an unmatched read without skip_unmatched, an inconsistent capture count,
\* an invalid record, a failing write of a row) leaves the file at the output
\* path as it was, absent or with its old content: the rows go to the
\* temporary file only, and the one step that changes the output file is
\* finish_write, taken after the loop over the reads has returned Ok.
C37_OutputTouchedOnlyByFinishWrite ==
    [][/\ g_pc' \in {"loop", "error", "panicked"} => g_out' = g_out
       /\ g_out' # g_out => (g_pc = "done" /\ g_pc' \in {"written", "finish_err"})]_vars

\* A run over an output path that holds an older index has written rows and
\* then failed: the old file is still there.
C37_Witness ==
    /\ g_pc = "error" /\ Len(g_rows) >= 1
    /\ g_out = OldOut

====
